---- MODULE Spec2Model ----
(***************************************************************************)
(* TwiMine: a model of the command line run (src/index.js), of the         *)
(* configuration loader (src/utils/config.js), of the authenticator        *)
(* (src/auth.js), of the bookmark collector (src/bookmarks.js) and of the  *)
(* output writer (src/output.js).                                          *)
(***************************************************************************)
EXTENDS Integers, Sequences, FiniteSets, TLC

(***************************************************************************)
(* JavaScript values.  Every value is a record of the same shape so that   *)
(* values of different JavaScript types can be compared.                   *)
(***************************************************************************)
Undefined == [t |-> "undefined", s |-> "", n |-> 0, b |-> FALSE]
Null      == [t |-> "null",      s |-> "", n |-> 0, b |-> FALSE]
NaN       == [t |-> "NaN",       s |-> "", n |-> 0, b |-> FALSE]
Str(x)    == [t |-> "string",    s |-> x,  n |-> 0, b |-> FALSE]
Num(k)    == [t |-> "number",    s |-> "", n |-> k, b |-> FALSE]
Bool(x)   == [t |-> "boolean",   s |-> "", n |-> 0, b |-> x]

\* ToBoolean: what `if (v)`, `!v`, `v && ...` and Boolean(v) read.
Truthy(v) ==
    \/ v.t = "string" /\ v.s # ""
    \/ v.t = "number" /\ v.n # 0
    \/ v.t = "boolean" /\ v.b

\* isNaN(v) = Number.isNaN(ToNumber(v)).  The only strings of the model that
\* reach it are not numeric.
JsIsNaN(v) ==
    \/ v.t = "NaN"
    \/ v.t = "undefined"
    \/ v.t = "string" /\ v.s # ""

\* v < k for a number k: false when ToNumber(v) is NaN.
JsLess(v, k) ==
    \/ v.t = "number" /\ v.n < k
    \/ v.t = "null" /\ 0 < k
    \/ v.t = "boolean" /\ (IF v.b THEN 1 ELSE 0) < k
    \/ v.t = "string" /\ v.s = "" /\ 0 < k

(***************************************************************************)
(* parseInt, as commander applies it to --limit and --timeout and as       *)
(* loadEnv applies it to TIMEOUT: an optional sign, then the longest       *)
(* prefix of decimal digits; NaN when there is no digit.  Text is a        *)
(* sequence of one-character strings.                                      *)
(***************************************************************************)
IsDigit(c) == c \in {"0", "1", "2", "3", "4", "5", "6", "7", "8", "9"}

DigitVal(c) ==
    CASE c = "0" -> 0 [] c = "1" -> 1 [] c = "2" -> 2 [] c = "3" -> 3
      [] c = "4" -> 4 [] c = "5" -> 5 [] c = "6" -> 6 [] c = "7" -> 7
      [] c = "8" -> 8 [] c = "9" -> 9

RECURSIVE ParseDigits(_, _, _)
ParseDigits(cs, i, acc) ==
    IF i > Len(cs) \/ ~IsDigit(cs[i]) THEN acc
    ELSE ParseDigits(cs, i + 1, acc * 10 + DigitVal(cs[i]))

ParseInt(cs) ==
    LET signed == Len(cs) > 0 /\ cs[1] \in {"-", "+"}
        first  == IF signed THEN 2 ELSE 1
    IN  IF first > Len(cs) \/ ~IsDigit(cs[first]) THEN NaN
        ELSE IF signed /\ cs[1] = "-" THEN Num(0 - ParseDigits(cs, first, 0))
        ELSE Num(ParseDigits(cs, first, 0))

(***************************************************************************)
(* Program constants of the configuration.                                 *)
(***************************************************************************)
DefaultTimeout == 30000
MinTimeout == 1000
DefaultScrollDelay == 800
MinScrollDelay == 100
\* config.maxScrolls is 1000 and MAX_CONSECUTIVE_EMPTY_SCROLLS is 15 in the
\* source; the model runs the same loop with small values of both.
maxScrolls == 3
MAX_CONSECUTIVE_EMPTY_SCROLLS == 2

(***************************************************************************)
(* State.                                                                  *)
(***************************************************************************)
VARIABLES
    \* the inputs of a run
    argv,           \* the command line, as commander sees it
    processEnv,     \* process.env after dotenv: TWITTER_USERNAME, TWITTER_PASSWORD, TIMEOUT
    timeline,       \* the bookmarks page of the account: its posts from the top down
    \* test-github-extraction.js
    testCaseText,   \* testCase.text
    extractedLinks, \* what extractGitHubLinks returned for it
    \* index.js / config.js
    options,        \* program.opts()
    env,            \* the object loadEnv() returns
    config,         \* the object loadConfig returns (NoConfig before, and when it throws)
    loggedConfig,   \* the object loadConfig hands to logger.debug (NoConfig: none)
    logged,         \* the error messages logged so far (logger.error)
    pc,             \* where main (and the function it awaits) stands
    browser,        \* index.js: the global `browser` (FALSE: null)
    browserState,   \* the Chromium process of the run: "none", "open", "closed"
    error,          \* the message of the error being propagated (<<>>: none)
    stages,         \* history: the stages main started and those that returned
    threw,          \* history: the stages that threw
    exitCode,       \* -1 while the process runs, then the code it exited with
    exitedBy,       \* "none", "main" (main returned) or "sigint" (cleanupResources)
    sigPc,          \* cleanupResources: "idle", "closing", "done"
    \* auth.js
    authBrowser,    \* authenticateTwitter: its local `browser` is set
    authLog,        \* history: the login steps attempted, with their results
    \* bookmarks.js
    bookmarks, processedCount, reachedEnd, scrollCount, consecutiveEmptyScrolls,
    visibleTweetLinks, linkIdx, processedUrls, processedAny,
    redirectPage,   \* "none", "open", "closed"
    pageAt,         \* where the primary page is: "login", "bookmarks" or a tweet URL
    scraped,        \* what scrapeBookmarks returned
    scanLog,        \* history: per visited tweet, the links scanned and how each resolved
    scrollTop,      \* how many scroll steps the primary page is away from its top
    passes,         \* history: how often the body of the while loop was entered
    \* output.js
    outputFile,     \* the content of config.output
    backups,        \* the backup files written, in order
    fileContent,    \* processOutput: its local `fileContent` (NoFile until it is read)
    finalOutput,    \* processOutput: its local `finalOutput`
    processedBookmarks \* what processOutput returned

inputVars  == <<argv, processEnv, timeline, testCaseText, extractedLinks>>
configVars == <<options, env, config, loggedConfig>>
mainVars   == <<pc, browser, browserState, error, stages, threw, exitCode, exitedBy, sigPc, logged>>
authVars   == <<authBrowser, authLog>>
scrapeVars == <<bookmarks, processedCount, reachedEnd, scrollCount, consecutiveEmptyScrolls,
                visibleTweetLinks, linkIdx, processedUrls, processedAny, redirectPage,
                pageAt, scraped, scanLog, scrollTop, passes>>
outputVars == <<outputFile, backups, fileContent, finalOutput, processedBookmarks>>
vars == <<inputVars, configVars, mainVars, authVars, scrapeVars, outputVars>>

(***************************************************************************)
(* env.js: loadEnv.  process.env holds strings (or nothing); TIMEOUT is    *)
(* parsed when it is a non-empty string.                                   *)
(***************************************************************************)
loadEnv(penv) ==
    [TWITTER_USERNAME |-> penv.TWITTER_USERNAME,
     TWITTER_PASSWORD |-> penv.TWITTER_PASSWORD,
     TIMEOUT |-> IF penv.TIMEOUT.given /\ penv.TIMEOUT.text # <<>>
                 THEN ParseInt(penv.TIMEOUT.text) ELSE Undefined]

(***************************************************************************)
(* index.js, main: the options commander yields.  --output, --append and   *)
(* --debug have defaults, --limit and --timeout go through parseInt, the   *)
(* other options are strings or absent.                                    *)
(***************************************************************************)
programOpts(a) ==
    [username      |-> a.username,
     password      |-> a.password,
     output        |-> IF a.output = Undefined THEN Str("bookmarks.json") ELSE a.output,
     append        |-> Bool(a.append),
     limit         |-> IF a.limit.given THEN ParseInt(a.limit.text) ELSE Undefined,
     debug         |-> Bool(a.debug),
     headless      |-> a.headless,
     timeout       |-> IF a.timeout.given THEN ParseInt(a.timeout.text) ELSE Undefined,
     screenshotDir |-> a.screenshotDir]

(***************************************************************************)
(* config.js: loadConfig and validateConfig.                               *)
(***************************************************************************)
NoConfig == [none |-> TRUE]

\* The object loadConfig starts from.  screenshotDir is no property of it: reading
\* it yields undefined.
builtinConfig ==
    [username      |-> Null,
     password      |-> Null,
     output        |-> Str("bookmarks.json"),
     append        |-> Bool(FALSE),
     limit         |-> Num(0),
     debug         |-> Bool(FALSE),
     headless      |-> Bool(TRUE),
     timeout       |-> Num(DefaultTimeout),
     scrollDelay   |-> Num(DefaultScrollDelay),
     maxScrolls    |-> Num(maxScrolls),
     screenshotDir |-> Undefined]

\* if (env.X) config.x = env.X, for username, password and timeout.
applyEnv(cfg, e) ==
    [cfg EXCEPT
        !.username = IF Truthy(e.TWITTER_USERNAME) THEN e.TWITTER_USERNAME ELSE @,
        !.password = IF Truthy(e.TWITTER_PASSWORD) THEN e.TWITTER_PASSWORD ELSE @,
        !.timeout  = IF Truthy(e.TIMEOUT) THEN e.TIMEOUT ELSE @]

BooleanKeys == {"headless", "debug", "append"}

\* The value stored for a boolean option.
booleanOption(v) ==
    IF v = Str("true") \/ v = Bool(TRUE) THEN Bool(TRUE)
    ELSE IF v = Str("false") \/ v = Bool(FALSE) THEN Bool(FALSE)
    ELSE Bool(Truthy(v))

\* Object.keys(cliOptions).forEach: every option that is not undefined overrides.
applyCli(cfg, cli) ==
    [k \in DOMAIN cfg |->
        IF k \in DOMAIN cli /\ cli[k] # Undefined
        THEN IF k \in BooleanKeys THEN booleanOption(cli[k]) ELSE cli[k]
        ELSE cfg[k]]

\* lines 301-308: the copy of the configuration that is logged.
sanitizedConfig_KeepsPassword(cfg) == [cfg EXCEPT !.username = Str("[REDACTED]")]

sanitizedConfig(cfg) ==
    [cfg EXCEPT !.username = Str("[REDACTED]"), !.password = Str("[REDACTED]")]

\* mergeConfig with the environment applied after the command line.
mergeConfig_EnvLast(cli, e) == applyEnv(applyCli(builtinConfig, cli), e)

mergeConfig(cli, e) == applyCli(applyEnv(builtinConfig, e), cli)

ErrUsername    == "Missing required configuration: username"
ErrPassword    == "Missing required configuration: password"
ErrTimeout     == "Invalid timeout value: must be a number >= 1000ms"
ErrLimit       == "Invalid limit value: must be a non-negative number"
ErrScrollDelay == "Invalid scrollDelay value: must be a number >= 100ms"

checkUsername(cfg) == IF ~Truthy(cfg.username) THEN <<ErrUsername>> ELSE <<>>
\* checkPassword with the check left out.
checkPassword_Never(cfg) == <<>>

checkPassword(cfg) == IF ~Truthy(cfg.password) THEN <<ErrPassword>> ELSE <<>>
checkTimeout(cfg) ==
    IF Truthy(cfg.timeout) /\ (JsIsNaN(cfg.timeout) \/ JsLess(cfg.timeout, MinTimeout))
    THEN <<ErrTimeout>> ELSE <<>>
checkLimit(cfg) ==
    IF Truthy(cfg.limit) /\ (JsIsNaN(cfg.limit) \/ JsLess(cfg.limit, 0))
    THEN <<ErrLimit>> ELSE <<>>
checkScrollDelay(cfg) ==
    IF Truthy(cfg.scrollDelay)
       /\ (JsIsNaN(cfg.scrollDelay) \/ JsLess(cfg.scrollDelay, MinScrollDelay))
    THEN <<ErrScrollDelay>> ELSE <<>>

validateConfig(cfg) ==
    checkUsername(cfg) \o checkPassword(cfg) \o checkTimeout(cfg)
        \o checkLimit(cfg) \o checkScrollDelay(cfg)

\* Error messages are sequences of words, so that String.includes can be computed.
MsgConfigFailed == <<"Configuration", "validation", "failed">>

(***************************************************************************)
(* The inputs the model draws from.                                        *)
(***************************************************************************)
Absent   == [given |-> FALSE, text |-> <<>>]
Text(cs) == [given |-> TRUE, text |-> cs]

LimitArgs ==
    {Absent, Text(<<"0">>), Text(<<"2">>), Text(<<"-", "1">>), Text(<<"a", "b", "c">>)}
TimeoutArgs ==
    {Absent, Text(<<"0">>), Text(<<"5", "0", "0">>), Text(<<"1", "0", "0", "0">>),
     Text(<<"6", "0", "0", "0", "0">>), Text(<<"a", "b", "c">>)}
EnvTimeouts ==
    {Absent, Text(<<>>), Text(<<"0">>), Text(<<"5", "0", "0">>),
     Text(<<"5", "0", "0", "0">>), Text(<<"a", "b", "c">>)}

\* The options that do not interact with the others vary together.
OtherArgs ==
    {[output |-> Undefined, append |-> FALSE, debug |-> FALSE, headless |-> Undefined,
      screenshotDir |-> Undefined],
     [output |-> Str("out.json"), append |-> TRUE, debug |-> FALSE,
      headless |-> Str("false"), screenshotDir |-> Undefined],
     [output |-> Undefined, append |-> FALSE, debug |-> TRUE, headless |-> Str("true"),
      screenshotDir |-> Str("shots")],
     [output |-> Str("out.json"), append |-> TRUE, debug |-> TRUE, headless |-> Str("no"),
      screenshotDir |-> Undefined],
     [output |-> Undefined, append |-> TRUE, debug |-> FALSE, headless |-> Str(""),
      screenshotDir |-> Undefined]}

MakeArgv(u, p, l, t, o) ==
    [username |-> u, password |-> p, limit |-> l, timeout |-> t, output |-> o.output,
     append |-> o.append, debug |-> o.debug, headless |-> o.headless,
     screenshotDir |-> o.screenshotDir]

ConfigArgvs ==
    {MakeArgv(u, p, l, t, o) :
        u \in {Undefined, Str(""), Str("cliuser")},
        p \in {Undefined, Str(""), Str("clipass")},
        l \in LimitArgs, t \in TimeoutArgs, o \in OtherArgs}

ConfigEnvs ==
    [TWITTER_USERNAME : {Undefined, Str(""), Str("envuser")},
     TWITTER_PASSWORD : {Undefined, Str("envpass")},
     TIMEOUT : EnvTimeouts]

(***************************************************************************)
(* Initial values.                                                         *)
(***************************************************************************)
NoOptions == [none |-> TRUE]
NoList == <<[none |-> TRUE]>>

\* No text is under test.
NoExtraction ==
    /\ testCaseText = Absent
    /\ extractedLinks = NoList

InitConfigVars ==
    /\ options = NoOptions
    /\ env = loadEnv(processEnv)     \* env.js runs when it is imported
    /\ config = NoConfig
    /\ loggedConfig = NoConfig

InitMainVars ==
    /\ browser = FALSE
    /\ browserState = "none"
    /\ error = <<>>
    /\ stages = <<>>
    /\ threw = {}
    /\ exitCode = -1
    /\ exitedBy = "none"
    /\ sigPc = "idle"
    /\ logged = <<>>

InitAuthVars ==
    /\ authBrowser = FALSE
    /\ authLog = <<>>

InitScrapeVars ==
    /\ bookmarks = <<>>
    /\ processedCount = 0
    /\ reachedEnd = FALSE
    /\ scrollCount = 0
    /\ consecutiveEmptyScrolls = 0
    /\ visibleTweetLinks = <<>>
    /\ linkIdx = 0
    /\ processedUrls = {}
    /\ processedAny = FALSE
    /\ redirectPage = "none"
    /\ pageAt = "none"
    /\ scraped = NoList
    /\ scanLog = <<>>
    /\ scrollTop = 0
    /\ passes = 0

(***************************************************************************)
(* index.js, main: its outer catch block and the process.exit that follows *)
(* its return.  Messages are sequences of words; includes looks for a word.*)
(***************************************************************************)
Includes(msg, word) == \E i \in 1..Len(msg) : msg[i] = word

GuidanceAuth    == "Authentication error - please check your Twitter credentials and try again"
Guidance2FA     == "If you use 2FA, you may need to temporarily disable it or use an app password"
GuidanceTimeout == "Operation timed out - this could be due to slow internet connection or Twitter rate limiting"
GuidanceTimeoutOption == "Try again later or use the --timeout option to increase the timeout value"
GuidanceNetwork == "Network error - please check your internet connection and try again"

errorGuidance(msg) ==
    IF Includes(msg, "authentication") THEN <<GuidanceAuth, Guidance2FA>>
    ELSE IF Includes(msg, "timeout") THEN <<GuidanceTimeout, GuidanceTimeoutOption>>
    ELSE IF Includes(msg, "navigation") \/ Includes(msg, "ERR_CONNECTION")
         THEN <<GuidanceNetwork>>
    ELSE <<>>

outerCatchLog(msg) ==
    <<"Error occurred during scraping process:">> \o errorGuidance(msg)
        \o <<"For more detailed debugging information, run with the -d option">>

\* MainReturns1 with the outer catch returning 0.
MainReturns1_Zero(msg, moreLogged) ==
    /\ error' = msg
    /\ logged' = logged \o moreLogged \o outerCatchLog(msg)
    /\ exitCode' = 0
    /\ exitedBy' = "main"
    /\ pc' = "exited"

\* main's outer catch: log, return 1; main().then(process.exit).
MainReturns1(msg, moreLogged) ==
    /\ error' = msg
    /\ logged' = logged \o moreLogged \o outerCatchLog(msg)
    /\ exitCode' = 1
    /\ exitedBy' = "main"
    /\ pc' = "exited"

Running == exitCode = -1

(***************************************************************************)
(* main, lines 52-73: program.parse and loadConfig.                        *)
(***************************************************************************)
ParseArgs ==
    /\ Running /\ pc = "parse"
    /\ options' = programOpts(argv)
    /\ pc' = "loadConfig"
    /\ UNCHANGED <<inputVars, env, config, loggedConfig, browser, browserState, error, stages, threw,
                   exitCode, exitedBy, sigPc, logged, authVars, scrapeVars, outputVars>>

\* LoadConfig with the validation errors logged but not thrown.
LoadConfig_IgnoresErrors ==
    /\ Running /\ pc = "loadConfig"
    /\ LET merged == mergeConfig(options, env)
       IN  /\ config' = merged
           /\ loggedConfig' = sanitizedConfig(merged)
           /\ logged' = logged \o validateConfig(merged)
           /\ stages' = stages \o <<"config:call", "config:return", "auth:call">>
           /\ pc' = "auth_launch"
           /\ UNCHANGED <<error, exitCode, exitedBy, threw>>
    /\ UNCHANGED <<inputVars, options, env, browser, browserState, sigPc,
                   authVars, scrapeVars, outputVars>>

LoadConfig ==
    /\ Running /\ pc = "loadConfig"
    /\ LET merged == mergeConfig(options, env)
           errs   == validateConfig(merged)
       IN  IF errs = <<>>
           THEN /\ config' = merged
                /\ loggedConfig' = sanitizedConfig(merged)
                /\ stages' = stages \o <<"config:call", "config:return", "auth:call">>
                /\ pc' = "auth_launch"
                /\ UNCHANGED <<error, logged, exitCode, exitedBy, threw>>
           ELSE /\ config' = config
                /\ UNCHANGED loggedConfig
                /\ stages' = Append(stages, "config:call")
                /\ threw' = threw \cup {"config"}
                /\ MainReturns1(MsgConfigFailed, errs)
    /\ UNCHANGED <<inputVars, options, env, browser, browserState, sigPc,
                   authVars, scrapeVars, outputVars>>

(***************************************************************************)
(* The errors Playwright and the file system raise.                        *)
(***************************************************************************)
PlaywrightErrors == {<<"Timeout", "30000ms", "exceeded">>, <<"net::", "ERR_CONNECTION", "_REFUSED">>}

\* main's inner catch (lines 109-118): close the browser when the global holds one,
\* then rethrow to the outer catch.
MainCatch(msg) ==
    IF browser
    THEN /\ error' = msg
         /\ pc' = "main_catch_closing"
         /\ UNCHANGED <<logged, exitCode, exitedBy>>
    ELSE MainReturns1(msg, <<>>)

(***************************************************************************)
(* auth.js: authenticateTwitter.  One action per awaited step.  A browser  *)
(* that close() was called on is gone, also when close() rejects (the      *)
(* rejection is swallowed by .catch).                                      *)
(***************************************************************************)
MsgAuthFailed == <<"Failed", "to", "authenticate", "with", "Twitter:">>
MsgLaunchFailed == <<"Browser", "launch", "failed:">>
MsgNavigationFailed == <<"Navigation", "failed:">>
MsgUsernameStep == <<"Failed", "to", "enter", "username", "or", "proceed", "to", "password", "step">>
MsgPasswordStep == <<"Failed", "to", "enter", "password", "or", "complete", "login">>
MsgVerifyStep == <<"Could", "not", "verify", "successful", "login">>

\* AuthCatch without the browser.close() of the catch block.
AuthCatch_NoClose(inner) ==
    /\ threw' = threw \cup {"auth"}
    /\ MainCatch(MsgAuthFailed \o inner)

\* The catch block of authenticateTwitter (lines 136-143) when an error `inner` is
\* caught: with a browser, await browser.close() first; without, throw at once.
AuthCatch(inner) ==
    IF authBrowser
    THEN /\ error' = inner
         /\ pc' = "auth_closing"
         /\ UNCHANGED <<logged, exitCode, exitedBy, threw>>
    ELSE /\ threw' = threw \cup {"auth"}
         /\ MainCatch(MsgAuthFailed \o inner)

AuthLaunch ==
    /\ Running /\ pc = "auth_launch"
    /\ \/ /\ browserState' = "open"
          /\ authBrowser' = TRUE
          /\ authLog' = Append(authLog, "launch:ok")
          /\ pc' = "auth_setup"
          /\ UNCHANGED <<error, logged, exitCode, exitedBy, threw>>
       \/ /\ \E e \in PlaywrightErrors : AuthCatch(MsgLaunchFailed \o e)
          /\ authLog' = Append(authLog, "launch:throw")
          /\ UNCHANGED <<browserState, authBrowser>>
    /\ UNCHANGED <<inputVars, configVars, browser, stages, sigPc, scrapeVars, outputVars>>

\* browser.newContext, context.newPage, page.setDefaultTimeout.
AuthSetup ==
    /\ Running /\ pc = "auth_setup"
    /\ \/ /\ authLog' = Append(authLog, "setup:ok")
          /\ pc' = "auth_goto"
          /\ UNCHANGED <<error, logged, exitCode, exitedBy, threw>>
       \/ /\ \E e \in PlaywrightErrors : AuthCatch(e)
          /\ authLog' = Append(authLog, "setup:throw")
    /\ UNCHANGED <<inputVars, configVars, browser, browserState, stages, sigPc,
                   authBrowser, scrapeVars, outputVars>>

\* page.goto(login), waitForLoadState (its failure is swallowed), and in debug mode
\* page.screenshot.
AuthGoto ==
    /\ Running /\ pc = "auth_goto"
    /\ \/ /\ authLog' = Append(authLog, "goto:ok")
          /\ pc' = "auth_username"
          /\ pageAt' = "login"
          /\ UNCHANGED <<error, logged, exitCode, exitedBy, threw>>
       \/ /\ \E e \in PlaywrightErrors : AuthCatch(MsgNavigationFailed \o e)
          /\ authLog' = Append(authLog, "goto:throw")
          /\ UNCHANGED pageAt
       \/ /\ Truthy(config.debug)
          /\ \E e \in PlaywrightErrors : AuthCatch(e)
          /\ authLog' = Append(authLog, "screenshot:throw")
          /\ pageAt' = "login"
    /\ UNCHANGED <<inputVars, configVars, browser, browserState, stages, sigPc, authBrowser,
                   bookmarks, processedCount, reachedEnd, scrollCount, consecutiveEmptyScrolls,
                   visibleTweetLinks, linkIdx, processedUrls, processedAny, redirectPage,
                   scraped, scanLog, scrollTop, passes, outputVars>>

\* One of enterUsername, enterPassword, verifyLoginSuccess: it reports true or false,
\* or throws from a screenshot taken in debug mode.
AuthStep(at, name, failure, next) ==
    /\ Running /\ pc = at
    /\ \/ /\ authLog' = Append(authLog, name \o ":true")
          /\ pc' = next
          /\ UNCHANGED <<error, logged, exitCode, exitedBy, threw>>
       \/ /\ authLog' = Append(authLog, name \o ":false")
          /\ AuthCatch(failure)
       \/ /\ Truthy(config.debug)
          /\ authLog' = Append(authLog, name \o ":throw")
          /\ \E e \in PlaywrightErrors : AuthCatch(e)
    /\ UNCHANGED <<inputVars, configVars, browser, browserState, stages, sigPc, authBrowser,
                   scrapeVars, outputVars>>

AuthUsername == AuthStep("auth_username", "username", MsgUsernameStep, "auth_password")
AuthPassword == AuthStep("auth_password", "password", MsgPasswordStep, "auth_verify")

\* verifyLoginSuccess; on success authenticateTwitter returns and main stores the
\* browser in its global and calls scrapeBookmarks (lines 78-89), with no await
\* in between.
AuthVerify ==
    /\ Running /\ pc = "auth_verify"
    /\ \/ /\ authLog' = Append(authLog, "verify:true")
          /\ pageAt' = "home"
          /\ browser' = TRUE
          /\ stages' = stages \o <<"auth:return", "scrape:call">>
          /\ pc' = "scrape_newPage"
          /\ UNCHANGED <<error, logged, exitCode, exitedBy, threw>>
       \/ /\ authLog' = Append(authLog, "verify:false")
          /\ AuthCatch(MsgVerifyStep)
          /\ UNCHANGED <<browser, stages, pageAt>>
       \/ /\ Truthy(config.debug)
          /\ authLog' = Append(authLog, "verify:throw")
          /\ \E e \in PlaywrightErrors : AuthCatch(e)
          /\ UNCHANGED <<browser, stages, pageAt>>
    /\ UNCHANGED <<inputVars, configVars, browserState, sigPc, authBrowser,
                   bookmarks, processedCount, reachedEnd, scrollCount, consecutiveEmptyScrolls,
                   visibleTweetLinks, linkIdx, processedUrls, processedAny, redirectPage,
                   scraped, scanLog, scrollTop, passes, outputVars>>

\* The awaited browser.close() of the catch block has settled: throw the wrapped
\* error to main.
AuthCloseDone ==
    /\ Running /\ pc = "auth_closing"
    /\ browserState' = "closed"
    /\ authLog' = Append(authLog, "close")
    /\ threw' = threw \cup {"auth"}
    /\ MainCatch(MsgAuthFailed \o error)
    /\ UNCHANGED <<inputVars, configVars, browser, stages, sigPc, authBrowser,
                   scrapeVars, outputVars>>

(***************************************************************************)
(* bookmarks.js: the values scrapeBookmarks works on.  A URL, an href and  *)
(* a user name are sequences of pieces of text, so that startsWith,        *)
(* endsWith and includes can be computed; <<>> stands for null.            *)
(***************************************************************************)
Range(q) == {q[i] : i \in 1..Len(q)}

\* String.includes for a needle made of whole pieces.
Contains(text, needle) ==
    \E i \in 0..(Len(text) - Len(needle)) :
        \A j \in 1..Len(needle) : text[i + j] = needle[j]

\* Set.add on a Set kept in insertion order.
SetAdd(q, x) == IF x \in Range(q) THEN q ELSE Append(q, x)

\* skipHref that passes over an empty href only.
skipHref_EmptyOnly(href) == href = <<>>

\* lines 309-315: the hrefs the scan skips.
skipHref(href) ==
    \/ href = <<>>
    \/ href[1] = "#"
    \/ href = <<"/">>
    \/ Contains(href, <<"/search?">>)
    \/ Contains(href, <<"/i/lists/">>)
    \/ Contains(href, <<"/i/topics/">>)
    \/ href[Len(href)] = "/analytics"

\* lines 338-340: the final URLs recorded as github_url.
isGitHubUrl(url) ==
    /\ Contains(url, <<"github.com">>)
    /\ ~Contains(url, <<"github.com", "/login">>)
    /\ ~Contains(url, <<"github.com", "/signup">>)

\* lines 228 and 252.
withAt(name) == IF name[1] = "@" THEN name ELSE <<"@">> \o name

\* the scan that ends at the first link the redirect page cannot follow.
RECURSIVE scanLinks_StopsAtFailure(_, _, _, _, _)
scanLinks_StopsAtFailure(links, i, last, urls, gh) ==
    IF i > last THEN [all_links |-> urls, github_url |-> gh]
    ELSE LET ev == links[i]
         IN  IF ev.attrThrows \/ skipHref(ev.href)
             THEN scanLinks_StopsAtFailure(links, i + 1, last, urls, gh)
             ELSE IF ev.resolved = <<>>
             THEN [all_links |-> urls, github_url |-> gh]
             ELSE scanLinks_StopsAtFailure(links, i + 1, last, SetAdd(urls, ev.resolved),
                                           IF isGitHubUrl(ev.resolved) THEN ev.resolved ELSE gh)

\* the scan that keeps the first GitHub URL it finds.
RECURSIVE scanLinks_FirstGitHub(_, _, _, _, _)
scanLinks_FirstGitHub(links, i, last, urls, gh) ==
    IF i > last THEN [all_links |-> urls, github_url |-> gh]
    ELSE LET ev == links[i]
         IN  IF ev.attrThrows \/ skipHref(ev.href) \/ ev.resolved = <<>>
             THEN scanLinks_FirstGitHub(links, i + 1, last, urls, gh)
             ELSE scanLinks_FirstGitHub(links, i + 1, last, SetAdd(urls, ev.resolved),
                                        IF isGitHubUrl(ev.resolved) /\ gh = <<>>
                                        THEN ev.resolved ELSE gh)

\* lines 296-355: the scan of the links of the tweet elements, from link i on, with
\* finalUrlsSet = urls and bookmark.github_url = gh.  A link whose href cannot be
\* read, is skipped or cannot be followed contributes nothing.
RECURSIVE scanLinks(_, _, _, _, _)
scanLinks(links, i, last, urls, gh) ==
    IF i > last THEN [all_links |-> urls, github_url |-> gh]
    ELSE LET ev == links[i]
         IN  IF ev.attrThrows \/ skipHref(ev.href) \/ ev.resolved = <<>>
             THEN scanLinks(links, i + 1, last, urls, gh)
             ELSE scanLinks(links, i + 1, last, SetAdd(urls, ev.resolved),
                            IF isGitHubUrl(ev.resolved) THEN ev.resolved ELSE gh)

newBookmark(tweetUrl) ==
    [kind |-> "object", tweet_url |-> tweetUrl, username |-> <<>>, tweet_text |-> "null",
     github_url |-> <<>>, all_links |-> <<>>, scraped_at |-> "now"]

\* lines 215-365: the try block of one bookmark, for what the browser does during
\* the visit (v).  Yields the bookmark as it is when the block is left.
visitTweet(tweetUrl, v) ==
    LET b0 == newBookmark(tweetUrl)
        b1 == IF v.listUsername # <<>>
              THEN [b0 EXCEPT !.username = withAt(v.listUsername)] ELSE b0
        b2 == IF b1.username = <<>> /\ v.pageUsername # <<>>
              THEN [b1 EXCEPT !.username = withAt(v.pageUsername)] ELSE b1
    IN  IF v.visit = "throw" THEN b1
        ELSE IF v.elements = 0 THEN b2
        ELSE IF v.abortAfter >= 0
             THEN \* an error outside the per-link try blocks: all_links is not assigned
                  [b2 EXCEPT !.github_url =
                       scanLinks(v.links, 1, v.abortAfter, <<>>, <<>>).github_url]
        ELSE LET r == scanLinks(v.links, 1, Len(v.links), <<>>, <<>>)
             IN  [b2 EXCEPT !.github_url = r.github_url, !.all_links = r.all_links]

\* The comparisons of the loop with config.limit, a number or NaN.
limitIsZero(cfg) == cfg.limit = Num(0)
limitPositive(cfg) == cfg.limit.t = "number" /\ cfg.limit.n > 0
belowLimit(cfg, count) == cfg.limit.t = "number" /\ count < cfg.limit.n
limitReached(cfg, count) == cfg.limit.t = "number" /\ cfg.limit.n > 0 /\ count >= cfg.limit.n

\* the while condition without the test of scrollCount.
loopCondition_NoMaxScrolls ==
    /\ ~reachedEnd
    /\ (limitIsZero(config) \/ belowLimit(config, processedCount))
    /\ consecutiveEmptyScrolls < MAX_CONSECUTIVE_EMPTY_SCROLLS

\* line 165-168: the condition of the while loop.
loopCondition ==
    /\ ~reachedEnd
    /\ (limitIsZero(config) \/ belowLimit(config, processedCount))
    /\ scrollCount < config.maxScrolls.n
    /\ consecutiveEmptyScrolls < MAX_CONSECUTIVE_EMPTY_SCROLLS

\* lines 196-197: the links the for loop passes over.
\* skipTweet without the test of the limit.
skipTweet_NoLimit(tweetUrl) == tweetUrl \in processedUrls

skipTweet(tweetUrl) ==
    \/ tweetUrl \in processedUrls
    \/ limitReached(config, processedCount)

\* lines 428-433: the final pass over the bookmarks.
RECURSIVE uniqueLinks(_)
uniqueLinks(q) == IF q = <<>> THEN <<>> ELSE SetAdd(uniqueLinks(SubSeq(q, 1, Len(q) - 1)), q[Len(q)])

cleanedBookmarks(bs) == [i \in 1..Len(bs) |-> [bs[i] EXCEPT !.all_links = uniqueLinks(@)]]

(***************************************************************************)
(* bookmarks.js: scrapeBookmarks, one action per stretch of awaited steps. *)
(***************************************************************************)
MsgRedirectPage == <<"Failed", "to", "create", "redirect", "page:">>
MsgBookmarksNav == <<"Navigation", "to", "bookmarks", "failed:">>
MsgNotOnBookmarks ==
    <<"Navigation", "to", "bookmarks", "page", "failed:", "Could", "not", "verify",
      "we", "are", "on", "the", "bookmarks", "page">>
MsgNoBookmarks ==
    <<"No", "bookmarks", "found", "or", "bookmarks", "page", "failed", "to", "load", "properly">>

\* scrapeBookmarks throws msg: its finally block closes the redirect page, and
\* main's inner catch takes over.
ScrapeThrows(msg) ==
    /\ redirectPage' = IF redirectPage = "open" THEN "closed" ELSE redirectPage
    /\ threw' = threw \cup {"scrape"}
    /\ MainCatch(msg)

\* scrapeBookmarks returns list; main calls processOutput (lines 89-96).
ScrapeReturns(list) ==
    /\ scraped' = list
    /\ redirectPage' = "closed"
    /\ stages' = stages \o <<"scrape:return", "output:call">>
    /\ pc' = "output_start"
    /\ UNCHANGED <<error, logged, exitCode, exitedBy, threw>>

\* lines 64-73: context.newPage for the redirect page.
ScrapeNewPage ==
    /\ Running /\ pc = "scrape_newPage"
    /\ \/ /\ redirectPage' = "open"
          /\ pc' = "scrape_open"
          /\ UNCHANGED <<error, logged, exitCode, exitedBy, threw>>
       \/ \E e \in PlaywrightErrors : ScrapeThrows(MsgRedirectPage \o e)
    /\ UNCHANGED <<inputVars, configVars, browser, browserState, stages, sigPc, authVars,
                   bookmarks, processedCount, reachedEnd, scrollCount, consecutiveEmptyScrolls,
                   visibleTweetLinks, linkIdx, processedUrls, processedAny, pageAt, scraped,
                   scanLog, scrollTop, passes, outputVars>>

\* lines 76-160: go to the bookmarks page, verify it, wait for tweets.
ScrapeOpen ==
    /\ Running /\ pc = "scrape_open"
    /\ \/ /\ pageAt' = "bookmarks"
          /\ pc' = "scrape_loop"
          /\ UNCHANGED <<error, logged, exitCode, exitedBy, threw, redirectPage, scraped, stages>>
       \/ /\ \E e \in PlaywrightErrors : ScrapeThrows(MsgBookmarksNav \o e)
          /\ UNCHANGED <<pageAt, scraped, stages>>
       \/ /\ \E at \in {"login", "bookmarks"} : pageAt' = at
          /\ \E m \in {MsgNotOnBookmarks, MsgNoBookmarks} : ScrapeThrows(m)
          /\ UNCHANGED <<scraped, stages>>
       \/ /\ pageAt' = "bookmarks"      \* the page says the bookmarks are empty
          /\ ScrapeReturns(<<>>)
    /\ scrollTop' = 0
    /\ UNCHANGED <<inputVars, configVars, browser, browserState, sigPc, authVars,
                   bookmarks, processedCount, reachedEnd, scrollCount, consecutiveEmptyScrolls,
                   visibleTweetLinks, linkIdx, processedUrls, processedAny,
                   scanLog, passes, outputVars>>

\* lines 165-190 and 427-447: the head of the while loop.  When the condition holds,
\* page.evaluate yields the links on screen (any list without repetition among
\* Lists); when it does not, the function returns the cleaned bookmarks.
ScrapeLoop(Lists) ==
    /\ Running /\ pc = "scrape_loop"
    /\ passes' = IF loopCondition THEN passes + 1 ELSE passes
    /\ IF loopCondition
       THEN \/ /\ \E links \in Lists : visibleTweetLinks' = links
               /\ processedUrls' = {bookmarks[i].tweet_url : i \in 1..Len(bookmarks)}
               /\ processedAny' = FALSE
               /\ linkIdx' = 1
               /\ pc' = "scrape_for"
               /\ UNCHANGED <<error, logged, exitCode, exitedBy, threw, redirectPage,
                              scraped, stages>>
            \/ /\ \E e \in PlaywrightErrors : ScrapeThrows(e)
               /\ UNCHANGED <<visibleTweetLinks, processedUrls, processedAny, linkIdx,
                              scraped, stages>>
       ELSE /\ ScrapeReturns(cleanedBookmarks(bookmarks))
            /\ UNCHANGED <<visibleTweetLinks, processedUrls, processedAny, linkIdx>>
    /\ UNCHANGED <<inputVars, configVars, browser, browserState, sigPc, authVars,
                   bookmarks, processedCount, reachedEnd, scrollCount, consecutiveEmptyScrolls,
                   pageAt, scanLog, scrollTop, outputVars>>

\* lines 194-388: one iteration of the for loop over the visible links (the visit is
\* what the browser does, among Visits), or the end of the for loop.
ScrapeFor(Visits) ==
    /\ Running /\ pc = "scrape_for"
    /\ IF linkIdx > Len(visibleTweetLinks)
       THEN /\ pc' = "scrape_scroll"
            /\ UNCHANGED <<bookmarks, processedCount, processedAny, linkIdx, pageAt, scanLog,
                           scrollTop, error, logged, exitCode, exitedBy, threw, redirectPage>>
       ELSE LET tweetUrl == visibleTweetLinks[linkIdx]
            IN  IF skipTweet(tweetUrl)
                THEN /\ linkIdx' = linkIdx + 1
                     /\ UNCHANGED <<pc, bookmarks, processedCount, processedAny, pageAt,
                                    scanLog, scrollTop, error, logged, exitCode, exitedBy,
                                    threw, redirectPage>>
                ELSE \E v \in Visits :
                     /\ processedCount' = processedCount + 1
                     /\ processedAny' = TRUE
                     /\ bookmarks' = Append(bookmarks, visitTweet(tweetUrl, v))
                     /\ scanLog' = Append(scanLog, [tweet_url |-> tweetUrl, visit |-> v])
                     \* a page.goto that succeeds shows the new page from its top
                     /\ scrollTop' = IF v.visit = "throw" /\ ~v.returnOk THEN scrollTop ELSE 0
                     /\ IF v.visit = "ok" /\ v.elements = 0
                        THEN \* line 284-285: push and continue, on the tweet's page
                             /\ pageAt' = tweetUrl
                             /\ linkIdx' = linkIdx + 1
                             /\ UNCHANGED <<pc, error, logged, exitCode, exitedBy, threw,
                                            redirectPage>>
                        ELSE IF ~v.returnOk
                        THEN \* line 377: page.goto(bookmarks) throws
                             /\ pageAt' = IF v.visit = "ok" THEN tweetUrl ELSE pageAt
                             /\ linkIdx' = linkIdx
                             /\ \E e \in PlaywrightErrors : ScrapeThrows(e)
                        ELSE /\ pageAt' = "bookmarks"
                             /\ linkIdx' = linkIdx + 1
                             /\ pc' = IF limitReached(config, processedCount + 1)
                                      THEN "scrape_scroll" ELSE "scrape_for"
                             /\ UNCHANGED <<error, logged, exitCode, exitedBy, threw,
                                            redirectPage>>
    /\ UNCHANGED <<inputVars, configVars, browser, browserState, stages, sigPc, authVars,
                   reachedEnd, scrollCount, consecutiveEmptyScrolls, visibleTweetLinks,
                   processedUrls, scraped, passes, outputVars>>

\* lines 390-424: count the empty passes, scroll, decide whether the end is reached.
\* A failing scroll breaks out of the while loop.
ScrapeScroll ==
    /\ Running /\ pc = "scrape_scroll"
    /\ LET empties == IF processedAny THEN 0 ELSE consecutiveEmptyScrolls + 1
           scrolls == limitIsZero(config) \/ belowLimit(config, processedCount)
       IN  /\ consecutiveEmptyScrolls' = empties
           /\ \/ /\ scrollCount' = IF scrolls THEN scrollCount + 1 ELSE scrollCount
                 /\ scrollTop' = IF scrolls THEN scrollTop + 1 ELSE scrollTop
                 /\ reachedEnd' = (reachedEnd \/ empties >= MAX_CONSECUTIVE_EMPTY_SCROLLS)
                 /\ pc' = "scrape_loop"
                 /\ UNCHANGED <<scraped, redirectPage, stages, error, logged, exitCode,
                                exitedBy, threw>>
              \/ /\ scrolls
                 /\ UNCHANGED <<scrollCount, scrollTop, reachedEnd>>
                 /\ ScrapeReturns(cleanedBookmarks(bookmarks))
    /\ UNCHANGED <<inputVars, configVars, browser, browserState, sigPc, authVars,
                   bookmarks, processedCount, visibleTweetLinks, linkIdx, processedUrls,
                   processedAny, pageAt, scanLog, passes, outputVars>>

(***************************************************************************)
(* output.js: processOutput.  A file is what JSON.parse makes of its text: *)
(* not JSON ("invalid"), a JSON value that is no array ("other"), or an    *)
(* array of entries; an entry is null or an object.  JSON.stringify writes *)
(* the entries of finalOutput, and an absent property stays absent.        *)
(***************************************************************************)
FileMissing == [exists |-> FALSE, kind |-> "none", entries |-> <<>>]
FileInvalid == [exists |-> TRUE, kind |-> "invalid", entries |-> <<>>]
FileOther   == [exists |-> TRUE, kind |-> "other", entries |-> <<>>]
FileArray(es) == [exists |-> TRUE, kind |-> "array", entries |-> es]

NoFile == [exists |-> FALSE, kind |-> "unread", entries |-> <<>>]

NullEntry ==
    [kind |-> "null", tweet_url |-> "", username |-> <<>>, tweet_text |-> "absent",
     github_url |-> <<>>, all_links |-> <<>>, scraped_at |-> ""]

\* hasLinks that looks at github_url only.
hasLinks_GitHubOnly(b) == b.github_url # <<>>

\* lines 27-33: the bookmarks that are kept.
hasLinks(b) == ~(b.github_url = <<>> /\ Len(b.all_links) = 0)

\* lines 45-56: the object written for a bookmark (tweet_text is left out).
formatBookmark(b) ==
    [kind |-> "object", username |-> b.username, tweet_url |-> b.tweet_url,
     github_url |-> b.github_url, all_links |-> uniqueLinks(b.all_links),
     scraped_at |-> b.scraped_at, tweet_text |-> "absent"]

\* Array.filter for the two predicates processOutput filters by.
RECURSIVE withLinks(_)
withLinks(q) ==
    IF q = <<>> THEN <<>>
    ELSE LET rest == withLinks(SubSeq(q, 1, Len(q) - 1))
         IN  IF hasLinks(q[Len(q)]) THEN Append(rest, q[Len(q)]) ELSE rest

RECURSIVE notIn(_, _)
notIn(q, urls) ==
    IF q = <<>> THEN <<>>
    ELSE LET rest == notIn(SubSeq(q, 1, Len(q) - 1), urls)
         IN  IF q[Len(q)].tweet_url \notin urls THEN Append(rest, q[Len(q)]) ELSE rest

formattedBookmarks(bs) ==
    LET kept == withLinks(bs)
    IN  [i \in 1..Len(kept) |-> formatBookmark(kept[i])]

\* mergeExisting that appends every formatted bookmark.
mergeExisting_NoDedup(existingData, formatted) == existingData \o formatted

\* lines 101-107: the existing entries followed by the bookmarks whose tweet_url
\* no existing entry has.
mergeExisting(existingData, formatted) ==
    LET existingUrls == {existingData[i].tweet_url : i \in 1..Len(existingData)}
    IN  existingData \o notIn(formatted, existingUrls)

\* item.tweet_url throws a TypeError when item is null.
mapThrows(existingData) == \E i \in 1..Len(existingData) : existingData[i].kind = "null"

MsgSaveFailed == <<"Failed", "to", "save", "output:">>
FsErrors == {<<"EACCES:", "permission", "denied">>}

\* line 76: the append branch is taken when --append is set and the file exists.
OutputStart ==
    /\ Running /\ pc = "output_start"
    /\ IF Truthy(config.append) /\ outputFile.exists
       THEN /\ pc' = "output_read"
            /\ UNCHANGED finalOutput
       ELSE /\ pc' = "output_write"
            /\ finalOutput' = formattedBookmarks(scraped)
    /\ UNCHANGED <<inputVars, configVars, browser, browserState, error, stages, threw,
                   exitCode, exitedBy, sigPc, logged, authVars, scrapeVars,
                   outputFile, backups, fileContent, processedBookmarks>>

\* lines 77-124 up to the first write: read and parse the existing file.
OutputRead ==
    /\ Running /\ pc = "output_read"
    /\ \/ /\ outputFile.kind = "array"
          /\ fileContent' = outputFile
          /\ finalOutput' = IF mapThrows(outputFile.entries)
                            THEN formattedBookmarks(scraped)   \* caught at line 118
                            ELSE mergeExisting(outputFile.entries, formattedBookmarks(scraped))
          /\ pc' = "output_write"
       \/ /\ outputFile.kind \in {"invalid", "other"}
          /\ fileContent' = outputFile
          /\ pc' = "output_backup"
          /\ UNCHANGED finalOutput
       \/ /\ finalOutput' = formattedBookmarks(scraped)   \* readFile fails: line 118
          /\ pc' = "output_write"
          /\ UNCHANGED fileContent
    /\ UNCHANGED <<inputVars, configVars, browser, browserState, error, stages, threw,
                   exitCode, exitedBy, sigPc, logged, authVars, scrapeVars,
                   outputFile, backups, processedBookmarks>>

\* lines 85-95 and 110-117: write the backup of a file that is no JSON array.  When
\* the write fails the error is caught at line 118 and the run goes on.
OutputBackup ==
    /\ Running /\ pc = "output_backup"
    /\ \/ backups' = Append(backups, fileContent)
       \/ UNCHANGED backups
    /\ finalOutput' = formattedBookmarks(scraped)
    /\ pc' = "output_write"
    /\ UNCHANGED <<inputVars, configVars, browser, browserState, error, stages, threw,
                   exitCode, exitedBy, sigPc, logged, authVars, scrapeVars,
                   outputFile, fileContent, processedBookmarks>>

\* lines 129-146: write the output file and return, or throw.
OutputWrite ==
    /\ Running /\ pc = "output_write"
    /\ \/ /\ outputFile' = FileArray(finalOutput)
          /\ processedBookmarks' = finalOutput
          /\ stages' = stages \o <<"output:write", "output:return">>
          /\ pc' = "main_close"
          /\ UNCHANGED <<error, logged, exitCode, exitedBy, threw>>
       \/ /\ \E e \in FsErrors : MainCatch(MsgSaveFailed \o e)
          /\ threw' = threw \cup {"output"}
          /\ UNCHANGED <<outputFile, processedBookmarks, stages>>
    /\ UNCHANGED <<inputVars, configVars, browser, browserState, sigPc, authVars, scrapeVars,
                   backups, fileContent, finalOutput>>

(***************************************************************************)
(* index.js, main, lines 98-118: close the browser and return.             *)
(***************************************************************************)
MainClose ==
    /\ Running /\ pc = "main_close"
    /\ browserState' = "closed"
    /\ \/ /\ browser' = FALSE
          /\ exitCode' = 0
          /\ exitedBy' = "main"
          /\ pc' = "exited"
          /\ UNCHANGED <<error, logged, threw>>
       \/ /\ threw' = threw \cup {"close"}
          /\ \E e \in PlaywrightErrors : MainCatch(e)
          /\ UNCHANGED browser
    /\ UNCHANGED <<inputVars, configVars, stages, sigPc, authVars, scrapeVars, outputVars>>

\* The awaited browser.close() of the inner catch has settled: rethrow to the outer
\* catch, which returns 1.
MainCatchCloseDone ==
    /\ Running /\ pc = "main_catch_closing"
    /\ browserState' = "closed"
    /\ browser' = FALSE
    /\ MainReturns1(error, <<>>)
    /\ UNCHANGED <<inputVars, configVars, stages, threw, sigPc, authVars, scrapeVars,
                   outputVars>>

(***************************************************************************)
(* index.js, cleanupResources: the SIGINT handler.  A signal is delivered  *)
(* while main awaits; main runs without awaiting until chromium.launch.    *)
(***************************************************************************)
Sigint ==
    /\ Running /\ sigPc = "idle"
    /\ pc \notin {"parse", "loadConfig"}
    /\ IF browser
       THEN /\ sigPc' = "closing"
            /\ UNCHANGED <<exitCode, exitedBy>>
       ELSE /\ sigPc' = "done"
            /\ exitCode' = 0
            /\ exitedBy' = "sigint"
    /\ UNCHANGED <<inputVars, configVars, pc, browser, browserState, error, stages, threw,
                   logged, authVars, scrapeVars, outputVars>>

\* The handler's awaited browser.close() has settled: process.exit(0).
SigintCloseDone ==
    /\ Running /\ sigPc = "closing"
    /\ browserState' = "closed"
    /\ sigPc' = "done"
    /\ exitCode' = 0
    /\ exitedBy' = "sigint"
    /\ UNCHANGED <<inputVars, configVars, pc, browser, error, stages, threw,
                   logged, authVars, scrapeVars, outputVars>>

(***************************************************************************)
(* What the browser shows: tweet links, and the links found on a tweet's   *)
(* page with the URL each one leads to.                                    *)
(***************************************************************************)
NumTweets == 2
MaxVisible == 2
MaxExisting == 2

AllTweetUrls ==
    <<"https://twitter.com/a/status/1", "https://twitter.com/b/status/2",
      "https://twitter.com/c/status/3", "https://twitter.com/d/status/4">>
TweetUrls == {AllTweetUrls[i] : i \in 1..NumTweets}

\* The lists without repetition (Array.from of a Set) of at most n tweet links.
RECURSIVE ListsUpTo(_)
ListsUpTo(n) ==
    IF n = 0 THEN {<<>>}
    ELSE LET shorter == ListsUpTo(n - 1)
         IN  shorter \cup {Append(q, u) : q \in shorter, u \in TweetUrls}

VisibleLists ==
    {q \in ListsUpTo(MaxVisible) : \A i, j \in 1..Len(q) : i # j => q[i] # q[j]}

UrlRepo   == <<"https://", "github.com", "/owner/repo">>
UrlLogin  == <<"https://", "github.com", "/login", "?return_to=x">>
UrlBlog   == <<"https://", "example.com", "/post">>

UrlProfile == <<"https://", "twitter.com", "/alice">>

\* A link of a tweet element: its href, whether reading the href throws, the URL the
\* redirect page ends on when it follows the href (<<>>: the navigation fails), and
\* whether the element is a reply (FALSE: the bookmarked post itself).
LinkTo(url)  == [href |-> <<"https://", "t.co", "/x">>, attrThrows |-> FALSE, resolved |-> url,
                 inReply |-> TRUE]
LinkInPost(url) == [LinkTo(url) EXCEPT !.inReply = FALSE]
LinkProfile  == [href |-> UrlProfile, attrThrows |-> FALSE, resolved |-> UrlProfile,
                 inReply |-> TRUE]
LinkBroken   == [href |-> <<"/someuser">>, attrThrows |-> FALSE, resolved |-> <<>>,
                 inReply |-> TRUE]
LinkHash     == [href |-> <<"#">>, attrThrows |-> FALSE, resolved |-> UrlBlog,
                 inReply |-> TRUE]
LinkAnalytics == [href |-> <<"/a/status/1", "/analytics">>, attrThrows |-> FALSE,
                  resolved |-> UrlBlog, inReply |-> FALSE]
LinkDetached == [href |-> <<"https://", "t.co", "/y">>, attrThrows |-> TRUE,
                 resolved |-> UrlRepo, inReply |-> TRUE]

Visit(links) ==
    [listUsername |-> <<"alice">>, visit |-> "ok", pageUsername |-> <<"@", "alice">>,
     elements |-> 2, links |-> links, abortAfter |-> -1, returnOk |-> TRUE]

VisitRepo    == Visit(<<LinkInPost(UrlRepo), LinkAnalytics>>)
VisitBlog    == [Visit(<<LinkHash, LinkTo(UrlBlog), LinkTo(UrlBlog)>>) EXCEPT !.listUsername = <<>>]
VisitBoth    == Visit(<<LinkTo(UrlBlog), LinkTo(UrlRepo), LinkTo(UrlLogin), LinkBroken,
                       LinkProfile>>)
VisitNone    == [Visit(<<LinkBroken, LinkDetached>>) EXCEPT !.pageUsername = <<>>,
                                                           !.listUsername = <<>>]
VisitAborted == [Visit(<<LinkTo(UrlRepo), LinkTo(UrlBlog)>>) EXCEPT !.abortAfter = 1]
VisitFailed  == [Visit(<<>>) EXCEPT !.visit = "throw"]
VisitEmpty   == [Visit(<<>>) EXCEPT !.elements = 0]
VisitNoReturn == [Visit(<<LinkTo(UrlRepo)>>) EXCEPT !.returnOk = FALSE]

Visits == {VisitRepo, VisitBlog, VisitBoth, VisitNone, VisitAborted, VisitFailed,
           VisitEmpty, VisitNoReturn}

(***************************************************************************)
(* Specification of a whole run of main, with SIGINT.                      *)
(***************************************************************************)
PlainArgs == [output |-> Undefined, append |-> FALSE, debug |-> FALSE,
              headless |-> Undefined, screenshotDir |-> Undefined]

MainArgvs ==
    {MakeArgv(Str("cliuser"), Str("clipass"), Text(<<"1">>), Absent,
              [PlainArgs EXCEPT !.append = TRUE]),
     MakeArgv(Undefined, Undefined, Absent, Absent,
              [PlainArgs EXCEPT !.debug = TRUE, !.append = TRUE]),
     MakeArgv(Str("cliuser"), Str(""), Absent, Absent, PlainArgs)}

MainEnvs ==
    {[TWITTER_USERNAME |-> Str("envuser"), TWITTER_PASSWORD |-> Str("envpass"),
      TIMEOUT |-> Absent]}

OldEntry(url) ==
    [kind |-> "object", username |-> <<"@", "old">>, tweet_url |-> url,
     github_url |-> <<>>, all_links |-> <<UrlBlog>>, scraped_at |-> "before",
     tweet_text |-> "absent"]

MainFiles == {FileMissing, FileInvalid, FileArray(<<OldEntry(AllTweetUrls[1])>>)}
MainLists == {<<>>, <<AllTweetUrls[1]>>, <<AllTweetUrls[2], AllTweetUrls[1]>>}
MainVisits == {VisitRepo, VisitNone, VisitNoReturn}

InitOutputVars(Files) ==
    /\ outputFile \in Files
    /\ backups = <<>>
    /\ fileContent = NoFile
    /\ finalOutput = NoList
    /\ processedBookmarks = NoList

Init ==
    /\ argv \in MainArgvs
    /\ processEnv \in MainEnvs
    /\ NoExtraction
    /\ timeline = <<>>
    /\ pc = "parse"
    /\ InitConfigVars
    /\ InitMainVars
    /\ InitAuthVars
    /\ InitScrapeVars
    /\ InitOutputVars(MainFiles)

Next ==
    \/ ParseArgs
    \/ LoadConfig
    \/ AuthLaunch
    \/ AuthSetup
    \/ AuthGoto
    \/ AuthUsername
    \/ AuthPassword
    \/ AuthVerify
    \/ AuthCloseDone
    \/ ScrapeNewPage
    \/ ScrapeOpen
    \/ ScrapeLoop(MainLists)
    \/ ScrapeFor(MainVisits)
    \/ ScrapeScroll
    \/ OutputStart
    \/ OutputRead
    \/ OutputBackup
    \/ OutputWrite
    \/ MainClose
    \/ MainCatchCloseDone
    \/ Sigint
    \/ SigintCloseDone

Spec == Init /\ [][Next]_vars

(***************************************************************************)
(* Specification of loadConfig alone, over many command lines and          *)
(* environments.                                                           *)
(***************************************************************************)
InitConfig ==
    /\ argv \in ConfigArgvs
    /\ processEnv \in ConfigEnvs
    /\ NoExtraction
    /\ timeline = <<>>
    /\ pc = "parse"
    /\ InitConfigVars
    /\ InitMainVars
    /\ InitAuthVars
    /\ InitScrapeVars
    /\ InitOutputVars({FileMissing})

NextConfig == ParseArgs \/ LoadConfig

SpecConfig == InitConfig /\ [][NextConfig]_vars

(***************************************************************************)
(* Specification of scrapeBookmarks alone: it starts where authentication  *)
(* has succeeded, with a configuration loadConfig returned.                *)
(***************************************************************************)
ScrapeArgvs ==
    {MakeArgv(Str("cliuser"), Str("clipass"), l, Absent, PlainArgs) :
        l \in {Absent, Text(<<"1">>), Text(<<"2">>), Text(<<"a", "b", "c">>)}}

AuthSucceeded ==
    /\ browser = TRUE
    /\ browserState = "open"
    /\ error = <<>>
    /\ threw = {}
    /\ exitCode = -1
    /\ exitedBy = "none"
    /\ sigPc = "idle"
    /\ logged = <<>>
    /\ authBrowser = TRUE
    /\ authLog = <<"launch:ok", "setup:ok", "goto:ok", "username:true", "password:true",
                   "verify:true">>

InitScrape ==
    /\ argv \in ScrapeArgvs
    /\ processEnv \in MainEnvs
    /\ NoExtraction
    /\ timeline = <<>>
    /\ env = loadEnv(processEnv)
    /\ options = programOpts(argv)
    /\ config = mergeConfig(options, env)
    /\ loggedConfig = sanitizedConfig(config)
    /\ validateConfig(config) = <<>>
    /\ AuthSucceeded
    /\ stages = <<"config:call", "config:return", "auth:call", "auth:return", "scrape:call">>
    /\ pc = "scrape_newPage"
    /\ InitScrapeVars
    /\ InitOutputVars({FileMissing})

NextScrape ==
    \/ ScrapeNewPage
    \/ ScrapeOpen
    \/ ScrapeLoop(VisibleLists)
    \/ ScrapeFor(Visits)
    \/ ScrapeScroll

SpecScrape == InitScrape /\ [][NextScrape]_vars

(***************************************************************************)
(* Specification of scrapeBookmarks when every awaited operation settles:  *)
(* no step is put off for ever.                                            *)
(***************************************************************************)
NextScrapeFair ==
    \/ ScrapeNewPage
    \/ ScrapeOpen
    \/ ScrapeLoop(VisibleLists)
    \/ ScrapeFor(MainVisits)
    \/ ScrapeScroll

SpecScrapeFair == InitScrape /\ [][NextScrapeFair]_vars /\ WF_vars(NextScrapeFair)


(***************************************************************************)
(* Specification of processOutput alone: it starts where scrapeBookmarks   *)
(* has returned, over many scraped lists and existing files.               *)
(***************************************************************************)
OutputArgvs ==
    {MakeArgv(Str("cliuser"), Str("clipass"), Absent, Absent, o) :
        o \in {PlainArgs, [PlainArgs EXCEPT !.append = TRUE]}}

OutputVisits == {VisitRepo, VisitBlog, VisitNone, VisitAborted}
ScrapedBookmarks == {visitTweet(u, v) : u \in TweetUrls, v \in OutputVisits}

RECURSIVE SeqsUpTo(_, _)
SeqsUpTo(S, n) ==
    IF n = 0 THEN {<<>>}
    ELSE LET shorter == SeqsUpTo(S, n - 1)
         IN  shorter \cup {Append(q, x) : q \in shorter, x \in S}

\* What scrapeBookmarks returns: bookmarks of pairwise different tweets.
ScrapedLists ==
    {q \in SeqsUpTo(ScrapedBookmarks, NumTweets) :
        \A i, j \in 1..Len(q) : i # j => q[i].tweet_url # q[j].tweet_url}

NoUrlEntry == [OldEntry("") EXCEPT !.username = <<>>]
ExistingEntries ==
    {NullEntry, NoUrlEntry, OldEntry(AllTweetUrls[1]), OldEntry(AllTweetUrls[NumTweets + 1])}

ExistingFiles ==
    {FileMissing, FileInvalid, FileOther}
        \cup {FileArray(es) : es \in SeqsUpTo(ExistingEntries, MaxExisting)}

InitOutput ==
    /\ argv \in OutputArgvs
    /\ processEnv \in MainEnvs
    /\ NoExtraction
    /\ timeline = <<>>
    /\ env = loadEnv(processEnv)
    /\ options = programOpts(argv)
    /\ config = mergeConfig(options, env)
    /\ loggedConfig = sanitizedConfig(config)
    /\ validateConfig(config) = <<>>
    /\ AuthSucceeded
    /\ stages = <<"config:call", "config:return", "auth:call", "auth:return", "scrape:call",
                  "scrape:return", "output:call">>
    /\ pc = "output_start"
    /\ bookmarks = <<>>
    /\ processedCount = 0
    /\ reachedEnd = FALSE
    /\ scrollCount = 0
    /\ consecutiveEmptyScrolls = 0
    /\ visibleTweetLinks = <<>>
    /\ linkIdx = 0
    /\ processedUrls = {}
    /\ processedAny = FALSE
    /\ redirectPage = "closed"
    /\ pageAt = "bookmarks"
    /\ scraped \in ScrapedLists
    /\ scanLog = <<>>
    /\ scrollTop = 0
    /\ passes = 0
    /\ InitOutputVars(ExistingFiles)

NextOutput == OutputStart \/ OutputRead \/ OutputBackup \/ OutputWrite

SpecOutput == InitOutput /\ [][NextOutput]_vars

(***************************************************************************)
(* Specification of append-mode runs made one after the other on the same  *)
(* output file: each run scrapes and then writes.  The file starts missing *)
(* or as an empty array, so it only ever holds arrays and no backup is     *)
(* written.                                                                *)
(***************************************************************************)
MaxFileEntries == 4

AppendArgvs ==
    {MakeArgv(Str("cliuser"), Str("clipass"), Absent, Absent,
              [PlainArgs EXCEPT !.append = TRUE])}

AppendVisits == {VisitRepo, VisitNone}

InitAppend ==
    /\ argv \in AppendArgvs
    /\ processEnv \in MainEnvs
    /\ NoExtraction
    /\ timeline = <<>>
    /\ env = loadEnv(processEnv)
    /\ options = programOpts(argv)
    /\ config = mergeConfig(options, env)
    /\ loggedConfig = sanitizedConfig(config)
    /\ validateConfig(config) = <<>>
    /\ AuthSucceeded
    /\ stages = <<"config:call", "config:return", "auth:call", "auth:return", "scrape:call">>
    /\ pc = "scrape_newPage"
    /\ InitScrapeVars
    /\ InitOutputVars({FileMissing, FileArray(<<>>)})

\* index.js, main, started again with the same command line once the run before it
\* has written its output (or has failed while scraping): the new process has loaded
\* the same configuration, has logged in and calls scrapeBookmarks.  Only the output
\* file and the backups outlive a process.
RunAgain ==
    /\ pc \in {"main_close", "main_catch_closing"}
    /\ Len(outputFile.entries) <= MaxFileEntries
    /\ pc' = "scrape_newPage"
    /\ stages' = <<"config:call", "config:return", "auth:call", "auth:return", "scrape:call">>
    /\ browser' = TRUE
    /\ browserState' = "open"
    /\ error' = <<>>
    /\ threw' = {}
    /\ logged' = <<>>
    /\ bookmarks' = <<>>
    /\ processedCount' = 0
    /\ reachedEnd' = FALSE
    /\ scrollCount' = 0
    /\ consecutiveEmptyScrolls' = 0
    /\ visibleTweetLinks' = <<>>
    /\ linkIdx' = 0
    /\ processedUrls' = {}
    /\ processedAny' = FALSE
    /\ redirectPage' = "none"
    /\ pageAt' = "none"
    /\ scraped' = NoList
    /\ scanLog' = <<>>
    /\ scrollTop' = 0
    /\ passes' = 0
    /\ fileContent' = NoFile
    /\ finalOutput' = NoList
    /\ processedBookmarks' = NoList
    /\ UNCHANGED <<inputVars, configVars, exitCode, exitedBy, sigPc, authVars,
                   outputFile, backups>>

NextAppend ==
    \/ ScrapeNewPage
    \/ ScrapeOpen
    \/ ScrapeLoop(MainLists)
    \/ ScrapeFor(AppendVisits)
    \/ ScrapeScroll
    \/ OutputStart
    \/ OutputRead
    \/ OutputWrite
    \/ RunAgain

SpecAppend == InitAppend /\ [][NextAppend]_vars

(***************************************************************************)
(* test-github-extraction.js: extractGitHubLinks.  A text is a sequence of *)
(* pieces: groups of letters, digits, '_' and '-' (WordPieces) and the     *)
(* punctuation "://", ".", "/" and " ".  The pieces are chosen so that     *)
(* every literal of the regular expression and of the three includes tests *)
(* is a whole number of pieces.                                            *)
(***************************************************************************)
WordPieces == {"http", "s", "www", "github", "gitlab", "com", "login", "signup", "account",
               "o", "r"}

\* text has the pieces lit from position i on.
Lit(txt, i, lit) ==
    /\ i + Len(lit) - 1 <= Len(txt)
    /\ SubSeq(txt, i, i + Len(lit) - 1) = lit

\* [a-zA-Z0-9_-]+ is greedy: the position after the run of word pieces that starts
\* at i (i itself when there is none).
RECURSIVE wordRunEnd(_, _)
wordRunEnd(txt, i) ==
    IF i <= Len(txt) /\ txt[i] \in WordPieces THEN wordRunEnd(txt, i + 1) ELSE i

\* line 38: githubUrlRegex tried at position i.  Yields the position after the match,
\* or 0 when there is no match at i.
matchAt(txt, i) ==
    IF ~Lit(txt, i, <<"http">>) THEN 0
    ELSE LET afterS   == IF Lit(txt, i + 1, <<"s">>) THEN i + 2 ELSE i + 1
             afterWww == IF Lit(txt, afterS + 1, <<"www", ".">>) THEN afterS + 3
                         ELSE afterS + 1
             owner    == afterWww + 4
             ownerEnd == wordRunEnd(txt, owner)
             repoEnd  == wordRunEnd(txt, ownerEnd + 1)
         IN  IF /\ Lit(txt, afterS, <<"://">>)
                /\ Lit(txt, afterWww, <<"github", ".", "com", "/">>)
                /\ ownerEnd > owner
                /\ Lit(txt, ownerEnd, <<"/">>)
                /\ repoEnd > ownerEnd + 1
             THEN repoEnd
             ELSE 0

\* line 39: text.match with the g flag, from position i on: the matches from left to
\* right, the search going on after the end of each match.
RECURSIVE matchAll(_, _)
matchAll(txt, i) ==
    IF i > Len(txt) THEN <<>>
    ELSE LET e == matchAt(txt, i)
         IN  IF e = 0 THEN matchAll(txt, i + 1)
             ELSE <<SubSeq(txt, i, e - 1)>> \o matchAll(txt, e)

\* excluded without the test for 'github.com/account'.
excluded_NoAccount(url) ==
    \/ Contains(url, <<"github", ".", "com", "/", "login">>)
    \/ Contains(url, <<"github", ".", "com", "/", "signup">>)

\* lines 42-46: the matches the filter removes.
excluded(url) ==
    \/ Contains(url, <<"github", ".", "com", "/", "login">>)
    \/ Contains(url, <<"github", ".", "com", "/", "signup">>)
    \/ Contains(url, <<"github", ".", "com", "/", "account">>)

RECURSIVE notExcluded(_)
notExcluded(urls) ==
    IF urls = <<>> THEN <<>>
    ELSE LET rest == notExcluded(SubSeq(urls, 1, Len(urls) - 1))
         IN  IF excluded(urls[Len(urls)]) THEN rest ELSE Append(rest, urls[Len(urls)])

\* lines 35-50.  !text holds for a missing and for an empty text.
extractGitHubLinks(t) ==
    IF ~t.given \/ t.text = <<>> THEN <<>>
    ELSE notExcluded(matchAll(t.text, 1))

\* The texts under test: one thing that may look like a repository URL, with or
\* without a word before it, or two of them, apart or run together.
Schemes == {<<"http", "://">>, <<"http", "s", "://">>, <<"s", "://">>, <<>>}
Hosts == {<<"github", ".", "com">>, <<"www", ".", "github", ".", "com">>,
          <<"www", ".", "gitlab", ".", "com">>, <<"github", ".", "o">>}
Owners == {<<"o">>, <<"login">>, <<"login", "o">>, <<"o", "login">>, <<"signup">>,
           <<"account">>, <<>>}
Repos == {<<"r">>, <<"r", "o">>, <<"login">>, <<>>}
Tails == {<<>>, <<"/", "r">>, <<".", "r">>}

UrlLike ==
    {sc \o h \o <<"/">> \o ow \o sep \o rp \o tl :
        sc \in Schemes, h \in Hosts, ow \in Owners, sep \in {<<"/">>, <<>>},
        rp \in Repos, tl \in Tails}

TwoUrls ==
    {<<"http", "s", "://", "github", ".", "com", "/", "o", "/", "r">>,
     <<"http", "://", "www", ".", "github", ".", "com", "/", "account", "/", "r">>,
     <<"http", "s", "://", "github", ".", "com", "/", "r", "/", "o", "/", "r">>,
     <<"http", "s", "://", "github", ".", "com", "/", "login">>}

TestTexts ==
    {Absent, Text(<<>>), Text(<<"o", " ", "r">>)}
        \cup {Text(u) : u \in UrlLike}
        \cup {Text(<<"o">> \o u) : u \in UrlLike}
        \cup {Text(u \o mid \o v) : u \in TwoUrls, v \in TwoUrls, mid \in {<<" ">>, <<>>}}

InitExtract ==
    /\ argv \in {MakeArgv(Undefined, Undefined, Absent, Absent, PlainArgs)}
    /\ processEnv \in MainEnvs
    /\ testCaseText \in TestTexts
    /\ timeline = <<>>
    /\ extractedLinks = NoList
    /\ pc = "test"
    /\ InitConfigVars
    /\ InitMainVars
    /\ InitAuthVars
    /\ InitScrapeVars
    /\ InitOutputVars({FileMissing})

\* runTest, line 123: extractGitHubLinks is applied to the text of a test case.
RunTest ==
    /\ pc = "test"
    /\ extractedLinks' = extractGitHubLinks(testCaseText)
    /\ pc' = "tested"
    /\ UNCHANGED <<argv, processEnv, timeline, testCaseText, configVars, browser, browserState, error,
                   stages, threw, exitCode, exitedBy, sigPc, logged, authVars, scrapeVars,
                   outputVars>>

NextExtract == RunTest

SpecExtract == InitExtract /\ [][NextExtract]_vars

(***************************************************************************)
(* Specification of scrapeBookmarks on posts whose pages hold several      *)
(* links, to GitHub and elsewhere.                                         *)
(***************************************************************************)
UrlFork == <<"https://", "github.com", "/other/fork">>
UrlSignup == <<"https://", "github.com", "/signup", "?source=x">>

VisitTwoRepos == Visit(<<LinkTo(UrlRepo), LinkTo(UrlBlog), LinkInPost(UrlFork),
                         LinkTo(UrlSignup), LinkBroken>>)

LinkVisits == {VisitTwoRepos, VisitBoth, VisitAborted, VisitBlog, VisitFailed}

NextLinks ==
    \/ ScrapeNewPage
    \/ ScrapeOpen
    \/ ScrapeLoop(MainLists)
    \/ ScrapeFor(LinkVisits)
    \/ ScrapeScroll

SpecLinks == InitScrape /\ [][NextLinks]_vars

(***************************************************************************)
(* Specification of scrapeBookmarks on posts with links the redirect page  *)
(* cannot follow: a relative href, a navigation that times out.            *)
(***************************************************************************)
LinkTimeout == LinkTo(<<>>)

VisitTimeouts == Visit(<<LinkTimeout, LinkTo(UrlRepo), LinkBroken, LinkTo(UrlBlog)>>)
VisitAllFail  == [Visit(<<LinkTimeout, LinkBroken>>) EXCEPT !.returnOk = FALSE]

ResolveVisits == {VisitTimeouts, VisitAllFail, VisitBoth, VisitNoReturn, VisitAborted}

NextResolve ==
    \/ ScrapeNewPage
    \/ ScrapeOpen
    \/ ScrapeLoop(MainLists)
    \/ ScrapeFor(ResolveVisits)
    \/ ScrapeScroll

SpecResolve == InitScrape /\ [][NextResolve]_vars

(***************************************************************************)
(* Specification of scrapeBookmarks on a page whose anchors may repeat a   *)
(* post link: page.evaluate collects the hrefs in a Set.                   *)
(***************************************************************************)
\* the hrefs collected without the Set.
linkSet_NoSet(anchors) == anchors

\* lines 171-185: Array.from(linkSet) after linkSet.add(anchor.href) for each anchor.
linkSet(anchors) == uniqueLinks(anchors)

\* The post links of the anchors on screen, in document order, repeated or not.
AnchorLists == ListsUpTo(MaxVisible)

NextAnchors ==
    \/ ScrapeNewPage
    \/ ScrapeOpen
    \/ ScrapeLoop({linkSet(a) : a \in AnchorLists})
    \/ ScrapeFor(MainVisits)
    \/ ScrapeScroll

SpecAnchors == InitScrape /\ [][NextAnchors]_vars

(***************************************************************************)
(* Specification of scrapeBookmarks without a limit on a bookmarks page    *)
(* that shows a window of the timeline: ViewportPosts posts, one post      *)
(* further down with every scroll step, and from the top again after a     *)
(* navigation to the page.  Every visit succeeds and comes back.           *)
(***************************************************************************)
TimelineLen == 3
ViewportPosts == 1

Min(a, b) == IF a <= b THEN a ELSE b

\* The tweet links on screen when the page is `top` scroll steps away from its top.
Window(tl, top) ==
    LET first == Min(top, Len(tl) - Min(Len(tl), ViewportPosts)) + 1
    IN  SubSeq(tl, first, Min(Len(tl), first + ViewportPosts - 1))

\* What page.evaluate finds (lines 171-185).
PageView == {IF pageAt = "bookmarks" THEN Window(timeline, scrollTop) ELSE <<>>}

TimelineVisits == {VisitRepo, VisitNone}

InitTimeline ==
    /\ argv \in {MakeArgv(Str("cliuser"), Str("clipass"), Absent, Absent, PlainArgs)}
    /\ processEnv \in MainEnvs
    /\ NoExtraction
    /\ timeline \in {SubSeq(AllTweetUrls, 1, n) : n \in 1..TimelineLen}
    /\ env = loadEnv(processEnv)
    /\ options = programOpts(argv)
    /\ config = mergeConfig(options, env)
    /\ loggedConfig = sanitizedConfig(config)
    /\ validateConfig(config) = <<>>
    /\ AuthSucceeded
    /\ stages = <<"config:call", "config:return", "auth:call", "auth:return", "scrape:call">>
    /\ pc = "scrape_newPage"
    /\ InitScrapeVars
    /\ InitOutputVars({FileMissing})

NextTimeline ==
    \/ ScrapeNewPage
    \/ ScrapeOpen
    \/ ScrapeLoop(PageView)
    \/ ScrapeFor(TimelineVisits)
    \/ ScrapeScroll

SpecTimeline == InitTimeline /\ [][NextTimeline]_vars

(***************************************************************************)
(* The claims.                                                             *)
(***************************************************************************)
IsPrefix(p, q) == Len(p) <= Len(q) /\ SubSeq(q, 1, Len(p)) = p

StageOrder ==
    <<"config:call", "config:return", "auth:call", "auth:return", "scrape:call",
      "scrape:return", "output:call", "output:write", "output:return">>

AuthSuccessLog ==
    <<"launch:ok", "setup:ok", "goto:ok", "username:true", "password:true", "verify:true">>

\* C1: the stages of main happen in the order config, authentication, scraping,
\* output: a browser exists only once loadConfig has returned a valid config, the
\* collector works only once authentication has returned its browser, the output
\* writer only once the collector has returned; and once a stage has thrown, nothing
\* of a later stage has happened.
C1_StageOrder ==
    /\ IsPrefix(stages, StageOrder)
    /\ (browserState # "none" \/ authLog # <<>>
            => config # NoConfig /\ validateConfig(config) = <<>>)
    /\ (redirectPage # "none" \/ bookmarks # <<>> \/ scraped # NoList
            => authLog = AuthSuccessLog)
    /\ (fileContent # NoFile \/ finalOutput # NoList \/ backups # <<>>
             \/ processedBookmarks # NoList
            => scraped # NoList)
    /\ ("config" \in threw
            => browserState = "none" /\ authLog = <<>> /\ stages = <<"config:call">>)
    /\ ("auth" \in threw
            => redirectPage = "none" /\ bookmarks = <<>> /\ scraped = NoList)
    /\ ("scrape" \in threw
            => scraped = NoList /\ finalOutput = NoList /\ processedBookmarks = NoList
               /\ fileContent = NoFile /\ backups = <<>>)

\* C1 witness: a run that went through the four stages and returned.
C1_Witness ==
    /\ stages = StageOrder
    /\ exitedBy = "main"
    /\ bookmarks # <<>>

\* C2: with a limit L > 0, processedCount never exceeds L, and neither the list of
\* bookmarks nor the list returned has more than L entries.
C2_AtMostLimit ==
    limitPositive(config) =>
        /\ processedCount <= config.limit.n
        /\ Len(bookmarks) <= config.limit.n
        /\ (scraped # NoList => Len(scraped) <= config.limit.n)

\* C2 witness: the limit is reached while the screen shows more links than the limit
\* allows.
C2_Witness ==
    /\ limitPositive(config)
    /\ scraped # NoList
    /\ Len(scraped) = config.limit.n
    /\ Len(visibleTweetLinks) > config.limit.n
    /\ \E i \in 1..Len(visibleTweetLinks) : visibleTweetLinks[i] \notin processedUrls

\* C3: when the SIGINT handler ends the process, no browser the run has launched is
\* left open.
C3_SigintClosesBrowser ==
    exitedBy = "sigint" => browserState # "open"

\* C4: authenticateTwitter returns only after the username step, the password step
\* and the verification all succeeded, in that order; otherwise it throws 'Failed to
\* authenticate with Twitter: ...', with the browser closed if it had been launched;
\* and after a step that failed, no further step is attempted.
C4_AuthAllOrNothing ==
    LET okEntries == Range(AuthSuccessLog)
        n == Len(authLog)
    IN  /\ ("auth:return" \in Range(stages) => authLog = AuthSuccessLog /\ "auth" \notin threw)
        /\ ("auth" \in threw =>
                /\ IsPrefix(MsgAuthFailed, error)
                /\ "auth:return" \notin Range(stages)
                /\ ("launch:ok" \in Range(authLog) => browserState = "closed"))
        /\ \A i \in 1..n :
                authLog[i] \notin okEntries =>
                    \/ i = n
                    \/ i = n - 1 /\ authLog[n] = "close"
        /\ IsPrefix(SelectSeq(authLog, LAMBDA x : x \in okEntries), AuthSuccessLog)

\* C4 witness: the password step failed, so the browser was closed and the error
\* thrown without the verification being attempted.
C4_Witness ==
    /\ "auth" \in threw
    /\ "password:false" \in Range(authLog)
    /\ browserState = "closed"

AllStages == {"config", "auth", "scrape", "output", "close"}

\* C5: when main returns, it returns 1 if a stage threw and 0 if none did, and 0 only
\* after every stage completed.
C5_ExitCode ==
    exitedBy = "main" =>
        /\ exitCode \in {0, 1}
        /\ (threw # {} => exitCode = 1)
        /\ (exitCode = 0 => threw = {} /\ stages = StageOrder /\ browserState = "closed")
        /\ threw \subseteq AllStages

\* C5 witness: every stage completed but closing the browser threw, and main
\* returned 1.
C5_Witness ==
    /\ exitedBy = "main"
    /\ exitCode = 1
    /\ threw = {"close"}
    /\ stages = StageOrder

ConfigLoaded == pc \notin {"parse", "loadConfig"}

CliSupplies(k) == k \in DOMAIN options /\ options[k] # Undefined

EnvValue(k) ==
    CASE k = "username" -> env.TWITTER_USERNAME
      [] k = "password" -> env.TWITTER_PASSWORD
      [] k = "timeout"  -> env.TIMEOUT
      [] OTHER -> Undefined

\* C6, as claimed: every key of the returned config holds the CLI value when the CLI
\* supplies one, otherwise the environment value when one is set, otherwise the
\* built-in default.
C6_AsClaimed ==
    config # NoConfig =>
        \A k \in DOMAIN config :
            config[k] = IF CliSupplies(k) THEN options[k]
                        ELSE IF EnvValue(k) # Undefined THEN EnvValue(k)
                        ELSE builtinConfig[k]

BooleanReading(v) ==
    IF v \in {Str("false"), Bool(FALSE)} THEN Bool(FALSE)
    ELSE IF v \in {Str("true"), Bool(TRUE)} THEN Bool(TRUE)
    ELSE Bool(Truthy(v))

\* C6, amended: every key of the returned config holds the CLI value when the CLI
\* supplies one (for headless, debug and append: its boolean reading), otherwise the
\* environment value when it is truthy (a non-empty string, a number other than 0),
\* otherwise the built-in default; the environment never overrides the CLI.
C6_MergePriority ==
    config # NoConfig =>
        \A k \in DOMAIN config :
            config[k] = IF CliSupplies(k)
                        THEN IF k \in {"headless", "debug", "append"}
                             THEN BooleanReading(options[k]) ELSE options[k]
                        ELSE IF Truthy(EnvValue(k)) THEN EnvValue(k)
                        ELSE builtinConfig[k]

\* C6 witness: a config was returned for a command line whose user name, timeout and
\* headless option differ from the values the environment and the defaults give.
C6_Witness ==
    /\ config # NoConfig
    /\ options.username = Str("cliuser") /\ env.TWITTER_USERNAME = Str("envuser")
    /\ options.timeout = Num(60000) /\ env.TIMEOUT = Num(5000)
    /\ options.headless = Str("false")
    /\ options.password = Undefined /\ config.password = Str("envpass")

Missing(v) == v = Null \/ v = Undefined \/ v = Str("")

MergedCredential(cliValue, envValue) ==
    IF cliValue # Undefined THEN cliValue
    ELSE IF ~Missing(envValue) THEN envValue
    ELSE Null

\* C7: when the merged user name or password is missing, loadConfig throws
\* 'Configuration validation failed' and returns no config; a returned config has a
\* non-empty user name and a non-empty password.
C7_CredentialsRequired ==
    ConfigLoaded =>
        LET u == MergedCredential(options.username, env.TWITTER_USERNAME)
            p == MergedCredential(options.password, env.TWITTER_PASSWORD)
        IN  /\ (Missing(u) \/ Missing(p) =>
                    /\ config = NoConfig
                    /\ "config" \in threw
                    /\ error = MsgConfigFailed
                    /\ (Missing(u) => ErrUsername \in Range(logged))
                    /\ (Missing(p) => ErrPassword \in Range(logged)))
            /\ (config # NoConfig =>
                    /\ config.username.t = "string" /\ config.username.s # ""
                    /\ config.password.t = "string" /\ config.password.s # "")

\* C7 witness: an empty --password given on the command line hides the password of
\* the environment, and loadConfig throws.
C7_Witness ==
    /\ ConfigLoaded
    /\ options.password = Str("") /\ env.TWITTER_PASSWORD = Str("envpass")
    /\ options.username = Str("cliuser")
    /\ config = NoConfig /\ error = MsgConfigFailed

\* C8: a --timeout value that is not a number or is smaller than 1000 makes
\* loadConfig throw instead of returning a config, and no returned config has a
\* timeout that is not a number >= 1000.
C8_TimeoutValidated ==
    ConfigLoaded =>
        /\ (options.timeout # Undefined
              /\ (options.timeout.t # "number" \/ options.timeout.n < MinTimeout)
                => config = NoConfig)
        /\ (config # NoConfig =>
                config.timeout.t = "number" /\ config.timeout.n >= MinTimeout)

\* C9: a --limit value that is not a number or is negative makes loadConfig throw
\* instead of returning a config, and every returned config has a limit that is a
\* number >= 0.
C9_LimitValidated ==
    ConfigLoaded =>
        /\ (options.limit # Undefined
              /\ (options.limit.t # "number" \/ options.limit.n < 0)
                => config = NoConfig)
        /\ (config # NoConfig =>
                config.limit.t = "number" /\ config.limit.n >= 0)

\* C10: in append mode, when the existing file was read as a JSON array, the file
\* written holds the existing entries, unchanged and in order, followed by the
\* bookmarks this run saves whose tweet_url no existing entry has.
C10_AppendKeepsExisting ==
    pc = "main_close" /\ Truthy(config.append) /\ fileContent.kind = "array" =>
        LET existing == fileContent.entries
            fresh(b) == \A i \in 1..Len(existing) :
                            existing[i].kind = "null" \/ existing[i].tweet_url # b.tweet_url
        IN  outputFile.entries = existing \o SelectSeq(formattedBookmarks(scraped), fresh)


DistinctUrls(es) == \A i, j \in 1..Len(es) : i # j => es[i].tweet_url # es[j].tweet_url

\* C11: over any sequence of append-mode runs (scrapeBookmarks, then processOutput)
\* that starts from a missing or empty-array output file, the output file never
\* holds two entries with the same tweet_url.
C11_NoDuplicateUrls == DistinctUrls(outputFile.entries)

\* A later run has merged into a file that already held the tweet_url of a bookmark
\* it scraped with links, and has written the file.
C11_Witness ==
    /\ pc = "main_close"
    /\ fileContent.kind = "array" /\ Len(fileContent.entries) > 0
    /\ \E i \in 1..Len(scraped), j \in 1..Len(fileContent.entries) :
          hasLinks(scraped[i]) /\ scraped[i].tweet_url = fileContent.entries[j].tweet_url
    /\ \E i \in 1..Len(scraped) :
          /\ hasLinks(scraped[i])
          /\ \A j \in 1..Len(fileContent.entries) :
                scraped[i].tweet_url # fileContent.entries[j].tweet_url
    /\ outputFile = FileArray(finalOutput)
    /\ Len(outputFile.entries) > Len(fileContent.entries)

\* C12: in append mode, an existing output file that processOutput has read and
\* found to be no valid JSON, or valid JSON but no array, is overwritten only after
\* a backup holding its content has been written.
C12_BackupBeforeOverwrite ==
    [][(/\ outputFile' # outputFile
        /\ Truthy(config.append)
        /\ fileContent = outputFile
        /\ outputFile.kind \in {"invalid", "other"})
            => outputFile \in Range(backups)]_vars

\* The output file has just been written by processOutput.
OutputWritten == pc = "main_close" /\ outputFile = FileArray(finalOutput)

AnyCapturedLink(b) == b.github_url # <<>> \/ Len(b.all_links) > 0

\* Entry e is bookmark b as the output format has it: the five fields, with all_links
\* holding the links of b once each.
Saves(e, b) ==
    /\ e.kind = "object" /\ e.tweet_text = "absent"
    /\ e.tweet_url = b.tweet_url
    /\ e.username = b.username
    /\ e.github_url = b.github_url
    /\ e.scraped_at = b.scraped_at
    /\ Range(e.all_links) = Range(b.all_links)
    /\ \A i, j \in 1..Len(e.all_links) : i # j => e.all_links[i] # e.all_links[j]

Saved(b) == \E k \in 1..Len(outputFile.entries) : Saves(outputFile.entries[k], b)

\* The entries the run added: those that are not entries of the file it read.
AddedByRun(e) == e \notin Range(fileContent.entries)

\* C13 as stated: a scraped bookmark is among the bookmarks written by the run if and
\* only if it has a github_url or a non-empty all_links, and every entry the run
\* added is such a bookmark in the five-field format.
C13_AsClaimed ==
    OutputWritten =>
        /\ \A i \in 1..Len(scraped) : Saved(scraped[i]) <=> AnyCapturedLink(scraped[i])
        /\ \A k \in 1..Len(outputFile.entries) :
              AddedByRun(outputFile.entries[k]) =>
                  \E i \in 1..Len(scraped) :
                      AnyCapturedLink(scraped[i]) /\ Saves(outputFile.entries[k], scraped[i])

\* The append-mode merge has been performed on the entries of the existing file, and
\* one of them has the tweet_url of b.
LeftOutByMerge(b) ==
    /\ Truthy(config.append)
    /\ fileContent.kind = "array"
    /\ \A k \in 1..Len(fileContent.entries) : fileContent.entries[k].kind = "object"
    /\ \E k \in 1..Len(fileContent.entries) : fileContent.entries[k].tweet_url = b.tweet_url

\* C13, amended: a scraped bookmark is among the bookmarks written by the run if and
\* only if it has a github_url or a non-empty all_links and the append-mode merge
\* has not left it out because an existing entry has its tweet_url; every entry the
\* run added is such a bookmark in the five-field format.
C13_SavedIffLinks ==
    OutputWritten =>
        /\ \A i \in 1..Len(scraped) :
              Saved(scraped[i]) <=>
                  (AnyCapturedLink(scraped[i]) /\ ~LeftOutByMerge(scraped[i]))
        /\ \A k \in 1..Len(outputFile.entries) :
              AddedByRun(outputFile.entries[k]) =>
                  \E i \in 1..Len(scraped) :
                      AnyCapturedLink(scraped[i]) /\ Saves(outputFile.entries[k], scraped[i])

\* A run has written a file for two scraped bookmarks: one with links only in
\* all_links, which is saved, and one with links that the merge has left out.
C13_Witness ==
    /\ OutputWritten
    /\ \E i, j \in 1..Len(scraped) :
          /\ scraped[i].github_url = <<>> /\ Len(scraped[i].all_links) > 0
          /\ Saved(scraped[i])
          /\ AnyCapturedLink(scraped[j]) /\ LeftOutByMerge(scraped[j]) /\ ~Saved(scraped[j])

\* The beginnings of a repository URL: http(s)://(www.)github.com/
UrlHeads ==
    {sc \o w \o <<"github", ".", "com", "/">> :
        sc \in {<<"http", "://">>, <<"http", "s", "://">>}, w \in {<<>>, <<"www", ".">>}}

\* u reads http(s)://(www.)github.com/<owner>/<repo>, owner and repo non-empty and
\* made of letters, digits, '_' and '-'.
IsRepoUrl(u) ==
    \E h \in UrlHeads :
        /\ Len(u) >= Len(h) + 3
        /\ SubSeq(u, 1, Len(h)) = h
        /\ \E k \in (Len(h) + 2)..(Len(u) - 1) :
              /\ u[k] = "/"
              /\ \A x \in ((Len(h) + 1)..Len(u)) \ {k} : u[x] \in WordPieces

\* The substring from i to j is an occurrence of a repository URL in txt, taken as
\* long as it goes.
Occurs(txt, i, j) ==
    /\ IsRepoUrl(SubSeq(txt, i, j))
    /\ j = Len(txt) \/ txt[j + 1] \notin WordPieces

\* The occurrences from position `from` on, in order, each one starting after the end
\* of the one before it.
RECURSIVE Occurrences(_, _)
Occurrences(txt, from) ==
    LET starts == {i \in from..Len(txt) : \E j \in i..Len(txt) : Occurs(txt, i, j)}
    IN  IF starts = {} THEN <<>>
        ELSE LET i == CHOOSE a \in starts : \A b \in starts : a <= b
                 j == CHOOSE b \in i..Len(txt) : Occurs(txt, i, b)
             IN  <<SubSeq(txt, i, j)>> \o Occurrences(txt, j + 1)

Unwanted(u) ==
    \E w \in {"login", "signup", "account"} : Contains(u, <<"github", ".", "com", "/", w>>)

\* C14: for every text, extractGitHubLinks returns exactly the substrings that read
\* http(s)://(www.)github.com/<owner>/<repo>, in order of occurrence (each taken as
\* long as it goes, the next one looked for after its end), minus those that contain
\* 'github.com/login', 'github.com/signup' or 'github.com/account'; it returns the
\* empty list for an empty or missing text and for a text without such a URL.
C14_ExtractGitHubLinks ==
    pc = "tested" =>
        LET wanted(u) == ~Unwanted(u)
            found == IF testCaseText.given THEN Occurrences(testCaseText.text, 1) ELSE <<>>
        IN  /\ extractedLinks = SelectSeq(found, wanted)
            /\ (~testCaseText.given \/ testCaseText.text = <<>> \/ found = <<>>)
                  => extractedLinks = <<>>

\* A text with two repository URLs has been tested: one is returned, the other one
\* is left out as an account URL.
C14_Witness ==
    /\ pc = "tested"
    /\ Len(Occurrences(testCaseText.text, 1)) = 2
    /\ Len(extractedLinks) = 1
    /\ \E k \in 1..2 : Contains(Occurrences(testCaseText.text, 1)[k],
                                <<"github", ".", "com", "/", "account">>)

\* The link of a visit that a URL of all_links comes from: one whose href could be read
\* and that the redirect page followed to that URL.
ResolvedTo(link, url) == ~link.attrThrows /\ link.resolved = url

\* An href that stays inside Twitter: a relative one, or one of twitter.com.
TwitterInternal(href) ==
    \/ href = <<>>
    \/ href[1] \notin {"https://", "http://"}
    \/ Contains(href, <<"twitter.com">>)

\* C15 as stated: every URL recorded in a bookmark's all_links is the resolved
\* destination of an outbound (not Twitter-internal) link found in a reply to the post.
C15_AsClaimed ==
    \A k \in 1..Len(bookmarks) :
        \A n \in 1..Len(bookmarks[k].all_links) :
            \E m \in 1..Len(scanLog[k].visit.links) :
                LET link == scanLog[k].visit.links[m]
                IN  /\ ResolvedTo(link, bookmarks[k].all_links[n])
                    /\ link.inReply
                    /\ ~TwitterInternal(link.href)

\* The forms of href the scan passes over.
SkippedForm(href) ==
    \/ href = <<>>
    \/ href[1] = "#"
    \/ href = <<"/">>
    \/ \E piece \in {"/search?", "/i/lists/", "/i/topics/"} : piece \in Range(href)
    \/ href[Len(href)] = "/analytics"

\* C15, amended: every URL recorded in a bookmark's all_links is the resolved
\* destination of a link found in a tweet element of the post's page (the post itself
\* or a reply) whose href is none of the skipped forms.
C15_AllLinksFromPage ==
    \A k \in 1..Len(bookmarks) :
        \A n \in 1..Len(bookmarks[k].all_links) :
            \E m \in 1..Len(scanLog[k].visit.links) :
                LET link == scanLog[k].visit.links[m]
                IN  /\ ResolvedTo(link, bookmarks[k].all_links[n])
                    /\ ~SkippedForm(link.href)

\* scrapeBookmarks has returned a bookmark whose all_links holds a URL that only a link
\* of the post itself leads to, and one holding a URL a link of a reply leads to.
C15_Witness ==
    /\ pc = "output_start"
    /\ \E k \in 1..Len(scraped) :
          \E n \in 1..Len(scraped[k].all_links) :
              \A m \in 1..Len(scanLog[k].visit.links) :
                  ResolvedTo(scanLog[k].visit.links[m], scraped[k].all_links[n])
                      => ~scanLog[k].visit.links[m].inReply
    /\ \E k \in 1..Len(scraped) :
          \E n \in 1..Len(scraped[k].all_links), m \in 1..Len(scanLog[k].visit.links) :
              /\ ResolvedTo(scanLog[k].visit.links[m], scraped[k].all_links[n])
              /\ scanLog[k].visit.links[m].inReply

\* Every post of the timeline is on screen after fewer than maxScrolls scroll steps
\* from the top.
VisibleWithinMaxScrolls ==
    \A k \in 1..Len(timeline) :
        \E top \in 0..(config.maxScrolls.n - 1) : timeline[k] \in Range(Window(timeline, top))

\* C16: with limit 0, when the loop of scrapeBookmarks has run until its condition
\* failed on a timeline whose posts are all on screen within fewer than maxScrolls
\* scroll steps from the top, every post of the timeline is a tweet_url of the
\* returned list.
C16_AllPostsScraped ==
    (/\ pc = "output_start"
     /\ limitIsZero(config)
     /\ ~loopCondition
     /\ VisibleWithinMaxScrolls)
        => \A k \in 1..Len(timeline) :
              \E n \in 1..Len(scraped) : scraped[n].tweet_url = timeline[k]

\* The run started with another password, given where this run's password was given.
OtherPasswords == {"clipass", "envpass", "hunter2"}

argvWith(p) == [argv EXCEPT !.password = IF @ = Undefined THEN @ ELSE Str(p)]

processEnvWith(p) ==
    [processEnv EXCEPT !.TWITTER_PASSWORD = IF @ = Undefined THEN @ ELSE Str(p)]

configWith(p) == mergeConfig(programOpts(argvWith(p)), loadEnv(processEnvWith(p)))

Credentials == {config.username.s, config.password.s}

\* The pieces of text an entry of the output file holds.
EntryTexts(e) ==
    Range(e.username) \cup {e.tweet_url, e.scraped_at} \cup Range(e.github_url)
        \cup UNION {Range(e.all_links[k]) : k \in 1..Len(e.all_links)}

FileTexts(f) ==
    IF f.kind = "array"
    THEN UNION {EntryTexts(f.entries[k]) : k \in 1..Len(f.entries)}
    ELSE {}

ScrapePcs == {"scrape_newPage", "scrape_open", "scrape_loop", "scrape_for", "scrape_scroll"}

\* The end of a pass that has not reached the limit and whose scroll did not fail.
PassScrolls ==
    /\ pc = "scrape_scroll" /\ pc' = "scrape_loop"
    /\ (limitIsZero(config) \/ belowLimit(config, processedCount))

\* C18: when every awaited operation settles, each pass of the while loop that has
\* not reached the limit scrolls once and adds one to scrollCount, there are never
\* more than maxScrolls passes, whatever links the page shows, and scrapeBookmarks
\* returns or throws.
C18_LoopTerminates ==
    /\ [][PassScrolls => scrollCount' = scrollCount + 1 /\ scrollTop' = scrollTop + 1]_vars
    /\ [](passes <= config.maxScrolls.n /\ scrollCount <= passes /\ passes <= scrollCount + 1)
    /\ <>(pc \notin ScrapePcs)

\* scrapeBookmarks has returned after maxScrolls passes that all scrolled.
C18_Witness ==
    /\ pc = "output_start"
    /\ passes = config.maxScrolls.n
    /\ scrollCount = config.maxScrolls.n

\* C19: at every point of scrapeBookmarks, and in the list it returns, no two collected
\* bookmarks have the same tweet_url, although the anchors of a pass may repeat a post
\* link and a later pass may show a link again.
C19_DistinctTweetUrls ==
    /\ \A i, j \in 1..Len(bookmarks) :
          bookmarks[i].tweet_url = bookmarks[j].tweet_url => i = j
    /\ scraped # NoList =>
          \A i, j \in 1..Len(scraped) : scraped[i].tweet_url = scraped[j].tweet_url => i = j

\* A later pass shows the link of a bookmark collected before, with two collected.
C19_Witness ==
    /\ pc = "scrape_for"
    /\ passes >= 2
    /\ Len(bookmarks) >= 2
    /\ \E i \in 1..Len(visibleTweetLinks) : visibleTweetLinks[i] \in processedUrls

\* A URL that holds 'github.com' and neither 'github.com/login' nor 'github.com/signup'.
Qualifies(url) ==
    /\ \E n \in 1..Len(url) : url[n] = "github.com"
    /\ \A n \in 1..(Len(url) - 1) :
          url[n] = "github.com" => url[n + 1] \notin {"/login", "/signup"}

\* The links of a visit the scan followed to a final URL: the scan ends at the link
\* where an error outside the per-link try blocks is thrown, if any.
Followed(v) ==
    IF v.visit # "ok" \/ v.elements = 0 THEN {}
    ELSE {m \in 1..(IF v.abortAfter >= 0 THEN v.abortAfter ELSE Len(v.links)) :
             /\ ~v.links[m].attrThrows
             /\ ~SkippedForm(v.links[m].href)
             /\ v.links[m].resolved # <<>>}

QualifyingLinks(v) == {m \in Followed(v) : Qualifies(v.links[m].resolved)}

\* C20: the github_url of a bookmark is null when no followed link of its page
\* resolved to a qualifying URL, and otherwise the final URL of the last followed link
\* that did; the links after a qualifying one are followed and recorded all the same.
C20_GitHubUrlIsLastQualifying ==
    \A k \in 1..Len(bookmarks) :
        LET v == scanLog[k].visit
            Q == QualifyingLinks(v)
        IN  /\ Q = {} => bookmarks[k].github_url = <<>>
            /\ Q # {} =>
                  \E m \in Q : /\ \A o \in Q : o <= m
                               /\ bookmarks[k].github_url = v.links[m].resolved
            /\ v.abortAfter < 0 =>
                  \A m \in Followed(v) : v.links[m].resolved \in Range(bookmarks[k].all_links)

\* A returned bookmark whose page held two qualifying links to different URLs, a link
\* elsewhere between them and a signup link after them.
C20_Witness ==
    /\ pc = "output_start"
    /\ \E k \in 1..Len(scraped) :
          LET v == scanLog[k].visit
              Q == QualifyingLinks(v)
          IN  /\ \E m, o \in Q : m < o /\ v.links[m].resolved # v.links[o].resolved
              /\ \E m \in Q, o \in Followed(v) \ Q : m < o
              /\ \E m, o \in Q, n \in Followed(v) \ Q : m < n /\ n < o
              /\ scraped[k].github_url = UrlFork

\* A link the scan tried to follow and the redirect page could not.
FailedNavigation(link) ==
    /\ ~link.attrThrows
    /\ ~SkippedForm(link.href)
    /\ link.resolved = <<>>

\* C21: every entry of a bookmark's all_links, and its github_url, is the URL of the
\* redirect page after a navigation that succeeded; a link whose navigation fails adds
\* nothing, the links after it are followed all the same, and the primary page is on
\* the bookmarks page or on the page of a post, never where a link led.
C21_RedirectFailuresIsolated ==
    /\ \A k \in 1..Len(bookmarks) :
          LET v == scanLog[k].visit
              b == bookmarks[k]
              finalUrls == {v.links[m].resolved : m \in Followed(v)}
          IN  /\ \A n \in 1..Len(b.all_links) : b.all_links[n] \in finalUrls
              /\ b.github_url # <<>> => b.github_url \in finalUrls
              /\ v.abortAfter < 0 =>
                    /\ Range(b.all_links) = finalUrls
                    /\ Len(b.all_links) = Cardinality(finalUrls)
    /\ pc \in {"scrape_loop", "scrape_for", "scrape_scroll"} =>
          pageAt \in {"bookmarks"} \cup {scanLog[k].tweet_url : k \in 1..Len(scanLog)}

\* A returned bookmark of a page where a navigation failed before a link that was
\* followed, and a bookmark left with no links because every navigation failed.
C21_Witness ==
    /\ \E k \in 1..Len(bookmarks) :
          LET v == scanLog[k].visit
          IN  /\ v.abortAfter < 0
              /\ \E f \in 1..Len(v.links), m \in Followed(v) :
                    /\ f < m
                    /\ FailedNavigation(v.links[f])
                    /\ v.links[m].resolved \in Range(bookmarks[k].all_links)
    /\ \E k \in 1..Len(bookmarks) :
          LET v == scanLog[k].visit
          IN  /\ v.visit = "ok" /\ v.elements > 0
              /\ \E f \in 1..Len(v.links) : FailedNavigation(v.links[f])
              /\ bookmarks[k].all_links = <<>>
              /\ bookmarks[k].github_url = <<>>

\* Handling the bookmark failed: the visit of the post, the scan of its page, or the
\* navigation back to the bookmarks page.
HandlingFailed(v) == v.visit = "throw" \/ v.abortAfter >= 0 \/ ~v.returnOk

\* C22: a step of the for loop that handles a bookmark records the bookmark, and when
\* the handling failed scrapeBookmarks still does not throw: it stays in its loop.
C22_BookmarkFailuresRecovered ==
    [][(pc = "scrape_for" /\ Len(scanLog') = Len(scanLog) + 1)
          => /\ Len(bookmarks') = Len(bookmarks) + 1
             /\ bookmarks'[Len(bookmarks')].tweet_url = scanLog'[Len(scanLog')].tweet_url
             /\ HandlingFailed(scanLog'[Len(scanLog')].visit)
                   => "scrape" \notin threw' /\ pc' \in {"scrape_for", "scrape_scroll"}]_vars

\* The errors authenticateTwitter throws when a login step reports failure.
LoginStepErrors ==
    {MsgAuthFailed \o step : step \in {MsgUsernameStep, MsgPasswordStep, MsgVerifyStep}}

\* C23: when main has returned after authenticateTwitter failed in the username step,
\* the password step or the verification of the login, it returned 1 and its outer
\* catch has logged the authentication guidance and the 2FA hint.
C23_AuthGuidancePrinted ==
    (exitedBy = "main" /\ "auth" \in threw /\ error \in LoginStepErrors)
        => /\ exitCode = 1
           /\ GuidanceAuth \in Range(logged)
           /\ Guidance2FA \in Range(logged)

\* C24: in every bookmark scrapeBookmarks returns, a github_url that is not null is
\* one of the bookmark's all_links.
C24_GitHubUrlAmongAllLinks ==
    pc = "output_start" =>
        \A k \in 1..Len(scraped) :
            scraped[k].github_url # <<>>
                => \E n \in 1..Len(scraped[k].all_links) :
                      scraped[k].all_links[n] = scraped[k].github_url

====
